---- MODULE Spec2Model ----
(***************************************************************************)
(* graphsight: incremental graph construction and consistency              *)
(* reconciliation (src/graphsight/core/engine.py, src/graphsight/models.py)*)
(*                                                                         *)
(* Strings of the program are sequences of one-character strings, so that  *)
(* the id suffixing of NodeRegistry.resolve_id and the normalisation of    *)
(* GraphInterpreter._find_matching_node are computed, not postulated.      *)
(* Optional[T] is the record [some, val]; None is [some |-> FALSE].        *)
(***************************************************************************)
EXTENDS Integers, Sequences, FiniteSets, TLC

VARIABLES
    nodes,            \* NodeRegistry.nodes : base id -> list of Focus
    resolve_log,      \* ghost: every resolve_id call, <<focus, returned id, cluster>>
    pc,               \* position of the run
    mode,             \* traversal_mode of process ("dfs" | "bfs")
    image,            \* the oracle's answers to interpret_step, by location
    step_history,     \* List[StepInterpretation]
    frontier_queue,   \* List[Focus]
    visited_ids,      \* Set[str]
    step_count,       \* the crawl's step counter
    interpret_calls,  \* ghost: number of interpret_step calls
    audit_idx,        \* position of _run_initial_audit in step_history
    attempt,          \* loop variable of _run_consistency_loop
    tasks,            \* the AuditTasks of the running iteration
    task_idx,         \* position of _execute_fix_batch in tasks
    changes,          \* the changes flag of _execute_fix_batch
    iter_log,         \* ghost: per iteration, history length at start and audit calls;
                      \* under a steady oracle, the edge set at every check
    last_rewrite,     \* ghost: the last audit rewrite of a node's outgoing edges
    audit_trail,      \* ghost: what the audits of the run have denied and named
    pipeline,         \* which DraftRefinePipeline applies the corrections
    graph,            \* the GraphStructure _apply_structural_corrections works on
    draft_graph,      \* the GraphStructure its caller passed to it
    op_count,         \* passes of its "for op in operations" loop so far
    op_trail,         \* ghost: the last two operations, their outcomes, and the
                      \* graph before the last one
    other_graph,      \* the argument of GraphStructure.diff
    graph_diff,       \* the GraphDiff it returns
    code,             \* the lines MermaidParser.parse works on
    line_no,          \* passes of its "for line in lines" loop so far
    parsed,           \* the GraphStructure it builds
    fallback_events,  \* its fallback log
    parse_log,        \* ghost: how the node references of the last line were resolved
    drafts,           \* the oracle's answers to the three draft tasks and to the
                      \* id mapping queries
    futures,          \* the state of each draft task on the worker pool
    results,          \* the results dict of _generate_drafts, in insertion order
    final,            \* the graph _merge_union builds
    llm               \* what the model answers to each draft and mapping prompt

vars == <<nodes, resolve_log, pc, mode, image, step_history, frontier_queue,
          visited_ids, step_count, interpret_calls, audit_idx, attempt, tasks,
          task_idx, changes, iter_log, last_rewrite, audit_trail, pipeline, graph,
          op_count, op_trail, draft_graph, other_graph, graph_diff, code, line_no, parsed,
          fallback_events, parse_log, drafts, futures, results, final, llm>>

-----------------------------------------------------------------------------
(* Optional values *)

None == [some |-> FALSE, val |-> <<>>]

Some(v) == [some |-> TRUE, val |-> v]

\* Python truthiness of an Optional[str] / Optional[List]: None and empty are falsy.
Truthy(o) == o.some /\ o.val # <<>>

Range(s) == {s[i] : i \in DOMAIN s}

SeqsUpTo(S, n) == UNION {[1..m -> S] : m \in 0..n}

\* "x or []"
opt_set(o) == IF o.some THEN Range(o.val) ELSE {}

opt_list(o) == IF o.some THEN o.val ELSE <<>>

-----------------------------------------------------------------------------
(* Strings *)

Digit(d) == CASE d = 0 -> "0" [] d = 1 -> "1" [] d = 2 -> "2" [] d = 3 -> "3"
              [] d = 4 -> "4" [] d = 5 -> "5" [] d = 6 -> "6" [] d = 7 -> "7"
              [] d = 8 -> "8" [] d = 9 -> "9"

\* str(n) of a natural number, as in the f-string of resolve_id
RECURSIVE Dec(_)
Dec(n) == IF n < 10 THEN <<Digit(n)>> ELSE Dec(n \div 10) \o <<Digit(n % 10)>>

Lower(c) ==
    CASE c = "A" -> "a" [] c = "B" -> "b" [] c = "C" -> "c" [] c = "D" -> "d"
      [] c = "E" -> "e" [] c = "F" -> "f" [] c = "G" -> "g" [] c = "H" -> "h"
      [] c = "I" -> "i" [] c = "J" -> "j" [] c = "K" -> "k" [] c = "L" -> "l"
      [] c = "M" -> "m" [] c = "N" -> "n" [] c = "O" -> "o" [] c = "P" -> "p"
      [] c = "Q" -> "q" [] c = "R" -> "r" [] c = "S" -> "s" [] c = "T" -> "t"
      [] c = "U" -> "u" [] c = "V" -> "v" [] c = "W" -> "w" [] c = "X" -> "x"
      [] c = "Y" -> "y" [] c = "Z" -> "z" [] OTHER -> c

\* str.lower
lower(s) == [i \in DOMAIN s |-> Lower(s[i])]

IsPrefix(p, s) == Len(p) <= Len(s) /\ SubSeq(s, 1, Len(p)) = p

\* str.replace(old, new) for a non-empty old: leftmost occurrences, not overlapping
RECURSIVE replace(_, _, _)
replace(s, old, new) ==
    IF s = <<>> THEN <<>>
    ELSE IF IsPrefix(old, s)
         THEN new \o replace(SubSeq(s, Len(old) + 1, Len(s)), old, new)
         ELSE <<Head(s)>> \o replace(Tail(s), old, new)

\* str.strip: the blank is the only whitespace of the alphabet used
RECURSIVE lstrip(_)
lstrip(s) == IF s # <<>> /\ Head(s) = " " THEN lstrip(Tail(s)) ELSE s

RECURSIVE rstrip(_)
rstrip(s) ==
    IF s # <<>> /\ s[Len(s)] = " " THEN rstrip(SubSeq(s, 1, Len(s) - 1)) ELSE s

strip(s) == rstrip(lstrip(s))

\* Python's "needle in hay" on strings
contains(hay, needle) ==
    \E i \in 1..(Len(hay) - Len(needle) + 1) : SubSeq(hay, i, i + Len(needle) - 1) = needle

node_Unknown == <<"n","o","d","e","_","U","n","k","n","o","w","n">>

-----------------------------------------------------------------------------
(* models.Focus *)

Focus(sid, bbox, grid) == [suggested_id |-> sid, bbox |-> bbox, grid_refs |-> grid]

\* Focus.centroid, doubled: <<2*y_center, 2*x_center>>, so that it stays an integer.
\* The (0.0, 0.0) of a missing or malformed bbox is <<0, 0>>.
\* mutant: every bbox counts as missing
no_centroid(f) == <<0, 0>>

centroid(f) ==
    IF ~Truthy(f.bbox) \/ Len(f.bbox.val) # 4 THEN <<0, 0>>
    ELSE <<f.bbox.val[1] + f.bbox.val[3], f.bbox.val[2] + f.bbox.val[4]>>

grid_match(f, other) ==
    /\ Truthy(f.grid_refs) /\ Truthy(other.grid_refs)
    /\ Range(f.grid_refs.val) \cap Range(other.grid_refs.val) # {}

\* dist_sq < spatial_threshold**2 on the doubled centroids: both sides times 4.
bbox_match(f, other, spatial_threshold) ==
    LET c1 == centroid(f)
        c2 == centroid(other)
    IN  /\ c1 # <<0, 0>> /\ c2 # <<0, 0>>
        /\ (c1[1] - c2[1]) * (c1[1] - c2[1]) + (c1[2] - c2[2]) * (c1[2] - c2[2])
              < 4 * spatial_threshold * spatial_threshold

\* mutant: both conditions required
is_same_location_both(f, other, threshold) ==
    grid_match(f, other) /\ bbox_match(f, other, threshold)

is_same_location_hybrid(f, other, spatial_threshold) ==
    grid_match(f, other) \/ bbox_match(f, other, spatial_threshold)

-----------------------------------------------------------------------------
(* engine.NodeRegistry *)

\* NodeRegistry(spatial_threshold=150.0) as process constructs it
spatial_threshold == 150

base_id_of(focus) ==
    IF Truthy(focus.suggested_id) THEN focus.suggested_id.val ELSE node_Unknown

suffixed(base_id, k) == IF k = 1 THEN base_id ELSE base_id \o <<"_">> \o Dec(k)

\* mutant: the last matching candidate wins
RECURSIVE last_match(_, _, _)
last_match(focus, candidates, i) ==
    IF i > Len(candidates) THEN 0
    ELSE LET later == last_match(focus, candidates, i + 1) IN
         IF later # 0 THEN later
         ELSE IF is_same_location_hybrid(focus, candidates[i], spatial_threshold) THEN i
         ELSE 0

\* the for loop of resolve_id: index (from 1) of the first candidate from
\* position i on that is at the focus's location, 0 if there is none
RECURSIVE first_match(_, _, _)
first_match(focus, candidates, i) ==
    IF i > Len(candidates) THEN 0
    ELSE IF is_same_location_hybrid(focus, candidates[i], spatial_threshold) THEN i
    ELSE first_match(focus, candidates, i + 1)

\* resolve_id: the returned id, the registry afterwards, and the cluster used
resolve_id(reg, focus) ==
    LET base_id == base_id_of(focus) IN
    IF base_id \notin DOMAIN reg
    THEN [id |-> base_id,
          nodes |-> [b \in DOMAIN reg \cup {base_id} |->
                        IF b = base_id THEN <<focus>> ELSE reg[b]],
          cluster |-> <<base_id, 1>>, registered |-> TRUE]
    ELSE LET i == first_match(focus, reg[base_id], 1) IN
         IF i # 0
         THEN [id |-> suffixed(base_id, i), nodes |-> reg,
               cluster |-> <<base_id, i>>, registered |-> FALSE]
         ELSE [id |-> suffixed(base_id, Len(reg[base_id]) + 1),
               nodes |-> [reg EXCEPT ![base_id] = Append(@, focus)],
               cluster |-> <<base_id, Len(reg[base_id]) + 1>>, registered |-> TRUE]

-----------------------------------------------------------------------------
(* Inputs of the registry specification *)

MaxCalls == 4

id_a == <<"a">>

id_a_2 == <<"a", "_", "2">>

B1 == <<0, 0, 100, 100>>

\* centroid 149 from B1's
Bnear == <<0, 148, 100, 250>>

\* centroid exactly 150 from B1's
Bexact == <<0, 150, 100, 250>>

Bfar == <<600, 600, 700, 700>>

G1 == <<"C3">>

\* shares C3 with G1
G12 == <<"C3", "C4">>

G3 == <<"D7">>

\* Locations an oracle may report: bbox and grid_refs are both optional; a bbox
\* is a box inside the 0-1000 frame, grid_refs a possibly empty list of cells.
RegLocs ==
    {<<None, None>>, <<None, Some(<<>>)>>,
     <<Some(B1), None>>, <<Some(Bnear), None>>, <<Some(Bexact), None>>,
     <<Some(Bfar), None>>,
     <<None, Some(G1)>>,
     <<Some(B1), Some(G1)>>, <<Some(Bfar), Some(G12)>>, <<Some(Bnear), Some(G3)>>,
     <<Some(Bfar), Some(G3)>>, <<Some(B1), Some(G3)>>}

RegFoci ==
    {Focus(Some(id_a), l[1], l[2]) : l \in RegLocs}
    \cup {Focus(Some(id_a_2), Some(B1), None),
          Focus(None, Some(B1), None), Focus(Some(<<>>), Some(Bfar), None)}

-----------------------------------------------------------------------------
(* State outside the part a specification runs *)

NoRewrite == [index |-> 0, confirmed |-> None, after |-> <<>>]

NoTrail ==
    [crawled |-> {}, removed |-> {}, reconfirmed |-> {}, named |-> {}, caught |-> FALSE]

IdleCrawl ==
    /\ mode = "dfs"
    /\ image = <<>>
    /\ frontier_queue = <<>>
    /\ visited_ids = {}
    /\ step_count = 0
    /\ interpret_calls = 0

IdleAudit ==
    /\ audit_idx = 0
    /\ attempt = 0
    /\ tasks = <<>>
    /\ task_idx = 0
    /\ changes = FALSE
    /\ iter_log = [iterations |-> 0, hist_len |-> 0, audited |-> <<>>, edge_sets |-> <<>>]
    /\ last_rewrite = NoRewrite
    /\ audit_trail = NoTrail

crawl_vars == <<mode, image, frontier_queue, visited_ids, step_count, interpret_calls>>

audit_vars == <<audit_idx, attempt, tasks, task_idx, changes, iter_log, last_rewrite,
                audit_trail>>

refine_vars == <<pipeline, graph, op_count, op_trail, draft_graph>>

\* an operation of a correction batch with none of its keys: a key of the JSON
\* object, or a field of GraphOperation, is None when it is absent
NoKeys ==
    [op |-> None, node_id |-> None, new_label |-> None, new_shape |-> None,
     src |-> None, dst |-> None, label |-> None, style |-> None, shape |-> None]

NoOperation ==
    [op |-> NoKeys, outcome |-> "none", prev |-> NoKeys, prev_outcome |-> "none",
     before |-> [nodes |-> <<>>, edges |-> <<>>]]

IdleRefine ==
    /\ pipeline = "standard"
    /\ graph = [nodes |-> <<>>, edges |-> <<>>]
    /\ op_count = 0
    /\ op_trail = NoOperation
    /\ draft_graph = [nodes |-> <<>>, edges |-> <<>>]

diff_vars == <<other_graph, graph_diff>>

text_vars == <<code, line_no, parsed, fallback_events, parse_log>>

merge_vars == <<drafts, futures, results, final, llm>>

IdleDiff ==
    /\ other_graph = <<>>
    /\ graph_diff = <<>>

IdleText ==
    /\ code = <<>>
    /\ line_no = 0
    /\ parsed = <<>>
    /\ fallback_events = <<>>
    /\ parse_log = <<>>

IdleMerge ==
    /\ drafts = <<>>
    /\ futures = <<>>
    /\ results = <<>>
    /\ final = <<>>
    /\ llm = <<>>

\* the engine and the correction pipelines are not running
IdleEngine ==
    /\ nodes = <<>>
    /\ resolve_log = <<>>
    /\ step_history = <<>>
    /\ IdleCrawl
    /\ IdleAudit
    /\ pipeline = "standard"
    /\ op_count = 0
    /\ op_trail = NoOperation
    /\ draft_graph = [nodes |-> <<>>, edges |-> <<>>]

engine_vars == <<nodes, resolve_log, step_history, crawl_vars, audit_vars, pipeline,
                 op_count, op_trail, draft_graph>>

-----------------------------------------------------------------------------
(* Specification of the registry alone: resolve_id calls on a fresh registry *)

LogEntry(focus, r, before) ==
    [focus |-> focus, id |-> r.id, cluster |-> r.cluster, before |-> before]

InitRegistry ==
    /\ nodes = <<>>
    /\ resolve_log = <<>>
    /\ pc = "registry"
    /\ step_history = <<>>
    /\ IdleCrawl
    /\ IdleAudit
    /\ IdleRefine
    /\ IdleDiff /\ IdleText /\ IdleMerge

ResolveCall ==
    /\ pc = "registry"
    /\ Len(resolve_log) < MaxCalls
    /\ \E focus \in RegFoci :
          LET r == resolve_id(nodes, focus) IN
          /\ nodes' = r.nodes
          /\ resolve_log' = Append(resolve_log, LogEntry(focus, r, nodes))
    /\ UNCHANGED <<diff_vars, text_vars, merge_vars, refine_vars, pc, step_history, crawl_vars, audit_vars>>

NextRegistry == ResolveCall

SpecRegistry == InitRegistry /\ [][NextRegistry]_vars

-----------------------------------------------------------------------------
(* models.StepInterpretation, models.ConnectedNode *)

\* incoming_edges is kept as its length: the engine reads nothing else of it.
StepInterpretation(sid, edges, incoming, bbox, grid) ==
    [source_id |-> sid, outgoing_edges |-> edges, incoming_edges |-> incoming,
     audit_confirmed_incoming |-> None, audit_confirmed_outgoing |-> None,
     source_bbox |-> bbox, source_grid_refs |-> grid]

\* description is left out: free text for the prompts and the log, which the
\* engine writes ("(Audit Added)", "(Fix Added)", "(Reverse Patched)") and never reads.
ConnectedNode(tid, label, bbox, grid) ==
    [target_id |-> tid, edge_label |-> label, bbox |-> bbox, grid_refs |-> grid]

\* ConnectedNode(target_id=..., description=..., edge_label=None): an edge the
\* engine adds has no label and no location
AddedEdge(tid) == ConnectedNode(tid, None, None, None)

target_ids(edges) == [k \in DOMAIN edges |-> edges[k].target_id]

-----------------------------------------------------------------------------
(* GraphInterpreter._crawl *)

\* the hard step ceiling of the while loop
StepCeiling == 30

\* The caller of resolve_id overwrites focus.suggested_id with the returned id;
\* when the focus was registered, the registry holds that same object.
alias_suggested_id(r) ==
    IF r.registered
    THEN [r.nodes EXCEPT ![r.cluster[1]][r.cluster[2]].suggested_id = Some(r.id)]
    ELSE r.nodes

\* "for focus in start_nodes": resolve, rename, append to the frontier
RECURSIVE seed_frontier(_, _, _, _)
seed_frontier(reg, log, frontier, start_nodes) ==
    IF start_nodes = <<>> THEN [nodes |-> reg, log |-> log, frontier |-> frontier]
    ELSE LET focus == Head(start_nodes)
             r == resolve_id(reg, focus)
         IN  seed_frontier(alias_suggested_id(r),
                           Append(log, LogEntry(focus, r, <<>>)),
                           Append(frontier, [focus EXCEPT !.suggested_id = Some(r.id)]),
                           Tail(start_nodes))

\* mutant: the edge keeps the oracle's raw target id
keep_raw_target(edge, resolved_id) == edge

\* edge.target_id = resolved_id
set_target(edge, resolved_id) == [edge EXCEPT !.target_id = resolved_id]

\* "for edge in result.outgoing_edges" (Queue Next), from edge k on
RECURSIVE queue_next(_, _, _, _, _, _)
queue_next(reg, log, frontier, edges, visited, k) ==
    IF k > Len(edges)
    THEN [nodes |-> reg, log |-> log, frontier |-> frontier, edges |-> edges]
    ELSE LET edge == edges[k]
             next_focus == Focus(Some(edge.target_id), edge.bbox, edge.grid_refs)
             r == resolve_id(reg, next_focus)
             renamed == [next_focus EXCEPT !.suggested_id = Some(r.id)]
         IN  queue_next(alias_suggested_id(r),
                        Append(log, LogEntry(next_focus, r, <<>>)),
                        IF r.id \notin visited THEN Append(frontier, renamed)
                                               ELSE frontier,
                        [edges EXCEPT ![k] = set_target(edge, r.id)],
                        visited, k + 1)

\* frontier_queue.pop(-1) in dfs mode, pop(0) otherwise
popped(frontier) == IF mode = "dfs" THEN frontier[Len(frontier)] ELSE Head(frontier)

\* mutant: the pop empties the frontier
drop_frontier(frontier) == <<>>

after_pop(frontier) ==
    IF mode = "dfs" THEN SubSeq(frontier, 1, Len(frontier) - 1) ELSE Tail(frontier)

\* strategy.find_initial_focus, then the seeding loop
CrawlStart ==
    /\ pc = "start"
    /\ LET seeded == seed_frontier(nodes, resolve_log, <<>>, image.start_nodes) IN
       /\ nodes' = seeded.nodes
       /\ resolve_log' = seeded.log
       /\ frontier_queue' = seeded.frontier
    /\ pc' = "crawl"
    /\ UNCHANGED <<diff_vars, text_vars, merge_vars, refine_vars, mode, image, step_history, visited_ids, step_count,
                   interpret_calls, audit_vars>>

\* one pass of the while loop that ends in "continue"
CrawlSkip ==
    /\ pc = "crawl"
    /\ frontier_queue # <<>> /\ step_count < StepCeiling
    /\ popped(frontier_queue).suggested_id.val \in visited_ids
    /\ frontier_queue' = after_pop(frontier_queue)
    /\ UNCHANGED <<diff_vars, text_vars, merge_vars, refine_vars, nodes, resolve_log, pc, mode, image, step_history, visited_ids,
                   step_count, interpret_calls, audit_vars>>

\* mutant: the pass does not count against the ceiling
CrawlExploreUncounted ==
    /\ pc = "crawl"
    /\ frontier_queue # <<>> /\ step_count < StepCeiling
    /\ LET current == popped(frontier_queue)
           answer == image.at[<<current.bbox, current.grid_refs>>]
           visited == visited_ids \cup {current.suggested_id.val}
           q == queue_next(nodes, resolve_log, after_pop(frontier_queue),
                           answer.outgoing_edges, visited, 1)
       IN  /\ current.suggested_id.val \notin visited_ids
           /\ visited_ids' = visited
           /\ interpret_calls' = interpret_calls + 1
           /\ step_history' = Append(step_history,
                  StepInterpretation(current.suggested_id.val, q.edges,
                                     answer.incoming_edges, current.bbox,
                                     current.grid_refs))
           /\ nodes' = q.nodes
           /\ resolve_log' = q.log
           /\ frontier_queue' = q.frontier
    /\ UNCHANGED <<diff_vars, text_vars, merge_vars, refine_vars, step_count, pc, mode, image, audit_vars>>

\* one pass of the while loop that explores the popped focus
CrawlExplore ==
    /\ pc = "crawl"
    /\ frontier_queue # <<>> /\ step_count < StepCeiling
    /\ LET current == popped(frontier_queue)
           answer == image.at[<<current.bbox, current.grid_refs>>]
           visited == visited_ids \cup {current.suggested_id.val}
           q == queue_next(nodes, resolve_log, after_pop(frontier_queue),
                           answer.outgoing_edges, visited, 1)
       IN  /\ current.suggested_id.val \notin visited_ids
           /\ visited_ids' = visited
           /\ interpret_calls' = interpret_calls + 1
           /\ step_history' = Append(step_history,
                  StepInterpretation(current.suggested_id.val, q.edges,
                                     answer.incoming_edges, current.bbox,
                                     current.grid_refs))
           /\ nodes' = q.nodes
           /\ resolve_log' = q.log
           /\ frontier_queue' = q.frontier
    /\ step_count' = step_count + 1
    /\ UNCHANGED <<diff_vars, text_vars, merge_vars, refine_vars, pc, mode, image, audit_vars>>

\* the edges of a history as <<source_id, target_id>> pairs
reported_edges(history) ==
    UNION {{<<history[i].source_id, history[i].outgoing_edges[k].target_id>> :
              k \in DOMAIN history[i].outgoing_edges} : i \in DOMAIN history}

\* the while condition fails: _crawl returns step_history
CrawlReturn ==
    /\ pc = "crawl"
    /\ ~(frontier_queue # <<>> /\ step_count < StepCeiling)
    /\ pc' = "crawled"
    /\ audit_trail' = [audit_trail EXCEPT !.crawled = reported_edges(step_history)]
    /\ UNCHANGED <<diff_vars, text_vars, merge_vars, refine_vars, nodes, resolve_log, mode, image, step_history, frontier_queue,
                   visited_ids, step_count, interpret_calls, audit_idx, attempt, tasks,
                   task_idx, changes, iter_log, last_rewrite>>

-----------------------------------------------------------------------------
(* Specification of the crawl: every oracle of a bounded family, both modes *)

\* most outgoing edges in one interpret_step answer
MaxOut == 2

\* most edges in the whole picture
MaxImageEdges == 3

NoLoc == <<None, None>>

L1 == <<Some(B1), Some(G1)>>

L2 == <<Some(Bfar), Some(G3)>>

CrawlLocs == {NoLoc, L1, L2}

\* what interpret_step may report as one outgoing edge
CrawlEdges == {ConnectedNode(id_a, None, l[1], l[2]) : l \in CrawlLocs}

CrawlAnswers ==
    {[outgoing_edges |-> es, incoming_edges |-> 0] : es \in SeqsUpTo(CrawlEdges, MaxOut)}

CrawlStarts ==
    {<<Focus(Some(id_a), L1[1], L1[2])>>,
     <<Focus(Some(id_a), None, None)>>,
     <<Focus(Some(id_a_2), L1[1], L1[2]), Focus(Some(id_a), L2[1], L2[2])>>}

ImageEdges(at) ==
    Len(at[NoLoc].outgoing_edges) + Len(at[L1].outgoing_edges)
        + Len(at[L2].outgoing_edges)

CrawlImages ==
    {im \in [start_nodes : CrawlStarts, at : [CrawlLocs -> CrawlAnswers]] :
        ImageEdges(im.at) <= MaxImageEdges}

InitCrawl ==
    /\ nodes = <<>>
    /\ resolve_log = <<>>
    /\ pc = "start"
    /\ mode \in {"dfs", "bfs"}
    /\ image \in CrawlImages
    /\ step_history = <<>>
    /\ frontier_queue = <<>>
    /\ visited_ids = {}
    /\ step_count = 0
    /\ interpret_calls = 0
    /\ IdleAudit
    /\ IdleRefine
    /\ IdleDiff /\ IdleText /\ IdleMerge

NextCrawl == CrawlStart \/ CrawlSkip \/ CrawlExplore \/ CrawlReturn

SpecCrawl == InitCrawl /\ [][NextCrawl]_vars

-----------------------------------------------------------------------------
(* Inputs of a whole run: the picture the oracle reports during the crawl and  *)
(* the lists audit_node may confirm                                            *)

\* most incoming arrows interpret_step observes at a node
MaxIn == 1

\* longest list of confirmed nodes an audit_node returns
MaxConf == 2

id_Start == <<"S", "t", "a", "r", "t">>

id_A == <<"A">>

id_End == <<"E", "n", "d">>

Bmid == <<0, 600, 100, 700>>

LS == <<Some(B1), None>>

LA == <<Some(Bmid), None>>

LE == <<Some(Bfar), None>>

RunLocs == {LS, LA, LE}

RunIds == {id_Start, id_A, id_End}

Seen(tid, label, loc) == ConnectedNode(tid, label, loc[1], loc[2])

Yes == <<"Y", "e", "s">>

No == <<"N", "o">>

\* A picture: the outgoing edges interpret_step reports at LS, LA and LE, and
\* the locations that hold a node
Picture(at_LS, at_LA, at_LE, locs) ==
    [out |-> [l \in RunLocs |-> IF l = LS THEN at_LS ELSE IF l = LA THEN at_LA ELSE at_LE],
     locs |-> locs]

Alone == Picture(<<>>, <<>>, <<>>, {LS})

OneEdge == Picture(<<Seen(id_A, None, LA)>>, <<>>, <<>>, {LS, LA})

TwoBranches ==
    Picture(<<Seen(id_A, Some(Yes), LA), Seen(id_A, Some(No), LA)>>, <<>>, <<>>, {LS, LA})

Cycle == Picture(<<Seen(id_A, None, LA)>>, <<Seen(id_Start, None, LS)>>, <<>>, {LS, LA})

\* the simple chain Start -> A -> End
Chain == Picture(<<Seen(id_A, None, LA)>>, <<Seen(id_End, None, LE)>>, <<>>, RunLocs)

\* Start -> A and Start -> End
Fork == Picture(<<Seen(id_A, None, LA), Seen(id_End, None, LE)>>, <<>>, <<>>, RunLocs)

SmallPictures == {Alone, OneEdge, TwoBranches, Cycle}

id_at(l) == IF l = LS THEN id_Start ELSE IF l = LA THEN id_A ELSE id_End

\* the nodes a picture draws an arrow to, and from, for the node n
picture_targets(p, n) ==
    UNION {Range(target_ids(p.out[l])) : l \in {l \in RunLocs : id_at(l) = n}}

picture_sources(p, n) ==
    {id_at(l) : l \in {l \in RunLocs : n \in Range(target_ids(p.out[l]))}}

\* the arrows drawn, as the numbers of incoming arrows at each location
drawn_counts(p) ==
    [l \in RunLocs |-> Cardinality({m \in RunLocs :
        id_at(l) \in Range(target_ids(p.out[m]))})]

\* numbers of incoming arrows interpret_step may report at the picture's
\* nodes: those drawn, or those drawn but for a miscount at one node
Counts(p) ==
    {drawn_counts(p)} \cup
    {[drawn_counts(p) EXCEPT ![l] = c] : l \in p.locs, c \in 0..MaxIn}

\* An oracle is its answer to find_initial_focus, its answers to interpret_step
\* by location, the lists the full-image query of audit_node may return for a
\* node, by node id, the answers its per-edge verification query may give, and
\* whether its calls may fail. The per-edge query of these oracles agrees with
\* the full-image query and no call fails.
Oracle(p, inc, confirm_in, confirm_out) ==
    [start_nodes |-> <<Focus(Some(id_Start), LS[1], LS[2])>>,
     at |-> [l \in RunLocs |-> [outgoing_edges |-> p.out[l], incoming_edges |-> inc[l]]],
     confirm_in |-> confirm_in,
     confirm_out |-> confirm_out,
     verify |-> {"connected"},
     failing |-> FALSE]

\* the oracle o with a per-edge query that may also reject, and calls that may fail
Failing(o) == [o EXCEPT !.verify = {"connected", "rejected"}, !.failing = TRUE]

\* every enumeration of the set S: Python iterates a set of str in an order
\* that depends on the process's hash seed
Orders(S) == {q \in [1..Cardinality(S) -> S] : Range(q) = S}

\* Optional[List[str]] answers of audit_node: silence, or a list without
\* repetition of at most MaxConf nodes of S
AuditLists(S) ==
    {None} \cup UNION {{Some(q) : q \in Orders(T)} :
                           T \in {T \in SUBSET S : Cardinality(T) <= MaxConf}}

\* audit_node answers that are silent or list exactly the nodes of S
Truthful(S) == {None} \cup {Some(q) : q \in Orders(S)}

\* audits that may name A at any node, drawn or not
NamingA == [n \in RunIds |-> AuditLists({id_A})]

\* an id without text
NoName == <<>>

\* audits of Start that may name the node A as "a", and are silent otherwise
OtherSpelling ==
    [n \in RunIds |-> IF n = id_Start THEN {None, Some(<<id_a>>)} ELSE {None}]

\* audits that say nothing
Silent == [n \in RunIds |-> {None}]

\* the oracles of the runs: any small picture with audits that may name A; the
\* chain with audits that are silent or right about the arrows into a node
\* and may also miss the arrow out of it; the fork with audits that may confirm
\* any outgoing list for Start and are silent otherwise; the chain with audits
\* that give one answer per node, every time: for the arrows into it, silence
\* or Start, and for the arrows out of it, silence or none; the lone Start
\* with audits that may confirm an incoming source without a name; the single
\* edge with calls that may fail, audits that are silent about the arrows into
\* a node and may miss the arrow out of it; the single edge with audits that
\* may name A in another spelling as the source of an arrow into Start
RunImages ==
    UNION {{Oracle(p, inc, NamingA, NamingA) : inc \in Counts(p)} : p \in SmallPictures}
    \cup
    {Oracle(Chain, inc,
            [n \in RunIds |-> Truthful(picture_sources(Chain, n))],
            [n \in RunIds |-> AuditLists(picture_targets(Chain, n))]) :
        inc \in Counts(Chain)}
    \cup
    UNION {{Oracle(Chain, inc, [n \in RunIds |-> {a[n]}], [n \in RunIds |-> {b[n]}]) :
               a \in [RunIds -> {None, Some(<<id_Start>>)}],
               b \in [RunIds -> {None, Some(<<>>)}]} : inc \in Counts(Chain)}
    \cup
    {Oracle(Alone, inc, [n \in RunIds |-> {None, Some(<<NoName>>)}], Silent) :
        inc \in Counts(Alone)}
    \cup
    {Oracle(Fork, drawn_counts(Fork), Silent,
            [n \in RunIds |-> IF n = id_Start THEN AuditLists(RunIds) ELSE {None}])}
    \cup
    {Failing(Oracle(OneEdge, inc, Silent,
                    [n \in RunIds |-> AuditLists(picture_targets(OneEdge, n))])) :
        inc \in Counts(OneEdge)}
    \cup
    {Oracle(OneEdge, inc, OtherSpelling, Silent) : inc \in Counts(OneEdge)}

-----------------------------------------------------------------------------
(* Audit rewrite of a node's outgoing edges: _run_initial_audit lines 225-240 *)
(* and the forward patch of _execute_fix_batch lines 391-415                  *)

\* mutant: an edge is kept whether or not its target is confirmed
RECURSIVE keep_every_edge(_, _, _, _)
keep_every_edge(edges, confirmed, kept, k) ==
    IF k > Len(edges) THEN [kept |-> kept, confirmed |-> confirmed]
    ELSE keep_every_edge(edges, confirmed \ {edges[k].target_id},
                         Append(kept, edges[k]), k + 1)

\* mutant: a kept edge does not take its target out of the confirmed set, so
\* every edge to a confirmed target is kept
keep_each_confirmed(edges, confirmed, kept, k) ==
    LET is_confirmed(e) == e.target_id \in confirmed IN
    [kept |-> kept \o SelectSeq(SubSeq(edges, k, Len(edges)), is_confirmed),
     confirmed |-> confirmed \ {edges[j].target_id : j \in k..Len(edges)}]

\* "for edge in step.outgoing_edges: if edge.target_id in confirmed: keep the
\* edge and remove its target from confirmed", from edge k on
RECURSIVE keep_confirmed(_, _, _, _)
keep_confirmed(edges, confirmed, kept, k) ==
    IF k > Len(edges) THEN [kept |-> kept, confirmed |-> confirmed]
    ELSE IF edges[k].target_id \in confirmed
         THEN keep_confirmed(edges, confirmed \ {edges[k].target_id},
                             Append(kept, edges[k]), k + 1)
         ELSE keep_confirmed(edges, confirmed, kept, k + 1)

\* "for new_tgt in confirmed: new_edges.append(ConnectedNode(...))"
added_edges(order) == [k \in DOMAIN order |-> AddedEdge(order[k])]

\* the trail after an audit of node_id, whose edges were `before`. Of the
\* edges the crawl reported, removed has <<node_id, C>> when the answer's
\* outgoing list lacks the target C of an edge node_id has, reconfirmed has it
\* when a later answer lists C again, and named has <<node_id, A>> when the
\* answer's incoming list has the source A of a reported edge A -> node_id
trailed(trail, node_id, before, confirmed_incoming, confirmed_outgoing) ==
    LET lost == IF confirmed_outgoing.some
                THEN {C \in Range(target_ids(before)) :
                         /\ <<node_id, C>> \in trail.crawled
                         /\ C \notin Range(confirmed_outgoing.val)}
                ELSE {}
    IN  [crawled |-> trail.crawled,
         caught |-> trail.caught,
         removed |-> trail.removed \cup {<<node_id, C>> : C \in lost},
         reconfirmed |-> trail.reconfirmed \cup
             {pr \in trail.removed : pr[1] = node_id /\ pr[2] \in opt_set(confirmed_outgoing)},
         named |-> trail.named \cup
             {<<node_id, A>> : A \in {A \in opt_set(confirmed_incoming) :
                                        <<A, node_id>> \in trail.crawled}}]

-----------------------------------------------------------------------------
(* FlowchartStrategy.audit_node: the micro verification of the outgoing list *)

\* the answers of the per-edge query for the candidates of one audit: what the
\* oracle may say, or a failure of the call
Verdicts(oracle, macro) ==
    [opt_set(macro) -> oracle.verify \cup (IF oracle.failing THEN {"failed"} ELSE {})]

\* step_map.get(target_id) where step_map = {s.source_id: s for s in
\* context_history if s.source_id}: the index of the last step with that id, or 0
step_map(history, target_id) ==
    LET found == {i \in DOMAIN history :
                     history[i].source_id = target_id /\ target_id # <<>>}
    IN  IF found = {} THEN 0 ELSE CHOOSE i \in found : \A j \in found : j <= i

\* the candidates the loop asks the per-edge query about: the target has a step
\* and the step has a source_bbox
queried(history, target_id) ==
    /\ step_map(history, target_id) # 0
    /\ Truthy(history[step_map(history, target_id)].source_bbox)

\* the loop runs: there are candidates and current_focus has a bbox
micro_stage(focus_bbox, macro) == Truthy(macro) /\ Truthy(focus_bbox)

\* audit_confirmed_outgoing as audit_node returns it: the macro list as it is
\* when the loop does not run, else its candidates that were not queried, that
\* the query found connected, or whose query failed ("except Exception")
audit_node(history, focus_bbox, macro, verdict) ==
    IF ~micro_stage(focus_bbox, macro) THEN macro
    ELSE LET keeps(t) == ~queried(history, t) \/ verdict[t] # "rejected"
         IN  Some(SelectSeq(macro.val, keeps))

\* a per-edge query of the audit failed and the except clause caught it
caught(history, focus_bbox, macro, verdict) ==
    /\ micro_stage(focus_bbox, macro)
    /\ \E t \in Range(macro.val) : queried(history, t) /\ verdict[t] = "failed"

-----------------------------------------------------------------------------
(* GraphInterpreter._run_initial_audit *)

\* one pass of "for step in step_history": audit_node with no proposed incoming,
\* then the rewrite when the audit confirmed an outgoing list
InitialAuditStep ==
    /\ pc = "crawled"
    /\ audit_idx < Len(step_history)
    /\ LET i == audit_idx + 1
           step == step_history[i]
       IN  \E macro \in image.confirm_out[step.source_id] :
           \E verdict \in Verdicts(image, macro) :
              LET confirmed_outgoing ==
                      audit_node(step_history, step.source_bbox, macro, verdict)
              IN
              /\ IF confirmed_outgoing.some
                 THEN LET kc == keep_confirmed(step.outgoing_edges,
                                               Range(confirmed_outgoing.val), <<>>, 1)
                      IN  \E order \in Orders(kc.confirmed) :
                             LET new_edges == kc.kept \o added_edges(order) IN
                             /\ step_history' = [step_history EXCEPT
                                    ![i].outgoing_edges = new_edges,
                                    ![i].audit_confirmed_outgoing = confirmed_outgoing]
                             /\ last_rewrite' = [index |-> i,
                                                 confirmed |-> confirmed_outgoing,
                                                 after |-> new_edges]
                 ELSE /\ step_history' = step_history
                      /\ last_rewrite' = [index |-> i,
                                          confirmed |-> confirmed_outgoing,
                                          after |-> step.outgoing_edges]
              /\ audit_trail' =
                     [trailed(audit_trail, step.source_id, step.outgoing_edges, None,
                              confirmed_outgoing)
                      EXCEPT !.caught = @ \/ caught(step_history, step.source_bbox,
                                                    macro, verdict)]
    /\ audit_idx' = audit_idx + 1
    /\ UNCHANGED <<diff_vars, text_vars, merge_vars, refine_vars, nodes, resolve_log, pc, crawl_vars, attempt, tasks, task_idx,
                   changes, iter_log>>

\* the for loop is over: process enters _run_consistency_loop
InitialAuditReturn ==
    /\ pc = "crawled"
    /\ audit_idx = Len(step_history)
    /\ pc' = "loop"
    /\ UNCHANGED <<diff_vars, text_vars, merge_vars, refine_vars, nodes, resolve_log, step_history, crawl_vars, audit_vars>>

-----------------------------------------------------------------------------
(* GraphInterpreter._find_inconsistencies *)

edge_targets(step) == {step.outgoing_edges[k].target_id : k \in DOMAIN step.outgoing_edges}

\* mutant: the edges of steps without a source_id count too
logic_in_of_all(history, node_id) ==
    {history[j].source_id : j \in {j \in DOMAIN history :
        node_id \in edge_targets(history[j])}}

\* graph_map[node_id]["in"]: steps without a source_id contribute no edge
logic_in(history, node_id) ==
    {history[j].source_id : j \in {j \in DOMAIN history :
        history[j].source_id # <<>> /\ node_id \in edge_targets(history[j])}}

\* graph_map[node_id]["out"]
logic_out(history, node_id) ==
    UNION {edge_targets(history[j]) : j \in {j \in DOMAIN history :
        history[j].source_id = node_id}}

\* mutant: a node no audit has confirmed incoming arrows for is read as
\* confirmed to have none
confirmed_or_nothing(history, step) ==
    (IF logic_in(history, step.source_id) # opt_set(step.audit_confirmed_incoming)
     THEN {"Incoming Logic != Confirmed"} ELSE {})
    \cup
    (IF logic_out(history, step.source_id) # edge_targets(step)
     THEN {"Outgoing Sync Error"} ELSE {})

mismatch_reasons(history, step) ==
    (IF step.audit_confirmed_incoming.some
     THEN IF logic_in(history, step.source_id) # Range(step.audit_confirmed_incoming.val)
          THEN {"Incoming Logic != Confirmed"} ELSE {}
     ELSE IF Cardinality(logic_in(history, step.source_id)) # step.incoming_edges
          THEN {"Incoming Logic != VisualCount"} ELSE {})
    \cup
    (IF logic_out(history, step.source_id) # edge_targets(step)
     THEN {"Outgoing Sync Error"} ELSE {})

AuditTask(index, history) ==
    [index |-> index,
     proposed_in |-> logic_in(history, history[index].source_id),
     proposed_out |-> logic_out(history, history[index].source_id),
     reasons |-> mismatch_reasons(history, history[index])]

\* "for i, step in enumerate(step_history)", from step i on
RECURSIVE find_inconsistencies(_, _)
find_inconsistencies(history, i) ==
    IF i > Len(history) THEN <<>>
    ELSE IF history[i].source_id # <<>> /\ mismatch_reasons(history, history[i]) # {}
         THEN <<AuditTask(i, history)>> \o find_inconsistencies(history, i + 1)
         ELSE find_inconsistencies(history, i + 1)

-----------------------------------------------------------------------------
(* GraphInterpreter._find_matching_node *)

node_prefix == <<"n", "o", "d", "e", "_">>

clean(id) == strip(replace(replace(lower(id), node_prefix, <<>>), <<"_">>, <<" ">>))

\* least index in S, 0 when S is empty: the first step a for loop returns
first_index(S) == IF S = {} THEN 0 ELSE CHOOSE i \in S : \A j \in S : i <= j

\* mutant: whatever the id, the first step of the history is returned
match_first_step(target_id, history) == IF history = <<>> THEN 0 ELSE 1

\* index in history of the step returned, 0 for None
find_matching_node(target_id, history) ==
    IF target_id = <<>> THEN 0
    ELSE LET target_clean == clean(target_id)
             exact == first_index({i \in DOMAIN history :
                          history[i].source_id = target_id})
             normalized == first_index({i \in DOMAIN history :
                          /\ history[i].source_id # <<>>
                          /\ clean(history[i].source_id) = target_clean})
             substring == first_index({i \in DOMAIN history :
                          /\ history[i].source_id # <<>>
                          /\ Len(clean(history[i].source_id)) >= 4
                          /\ \/ contains(clean(history[i].source_id), target_clean)
                             \/ contains(target_clean, clean(history[i].source_id))})
         IN  IF exact # 0 THEN exact
             ELSE IF normalized # 0 THEN normalized
             ELSE IF Len(target_clean) >= 4 THEN substring
             ELSE 0

-----------------------------------------------------------------------------
(* GraphInterpreter._execute_fix_batch *)

\* mutant: the source is never taken as already connected
never_connected(step, node_id) == FALSE

\* any(e.target_id == node_id for e in matched_step.outgoing_edges)
has_edge_to(step, node_id) == node_id \in edge_targets(step)

\* mutant: the new edge replaces the edges the matched node had
connect_only(history, m, node_id) ==
    [history EXCEPT
        ![m].outgoing_edges = <<AddedEdge(node_id)>>,
        ![m].audit_confirmed_outgoing =
            IF @.some /\ node_id \notin Range(@.val)
            THEN Some(Append(@.val, node_id)) ELSE @]

\* the branch "if matched_step": connect the matched node to node_id
connect(history, m, node_id) ==
    [history EXCEPT
        ![m].outgoing_edges = Append(@, AddedEdge(node_id)),
        ![m].audit_confirmed_outgoing =
            IF @.some /\ node_id \notin Range(@.val)
            THEN Some(Append(@.val, node_id)) ELSE @]

\* the branch "else": the step created for a source no step matches
missing_node(src_id_raw, node_id) ==
    StepInterpretation(src_id_raw, <<AddedEdge(node_id)>>,
                       0, None, None)

\* "for src_id_raw in audit_result.audit_confirmed_incoming", from entry k on
RECURSIVE reverse_patch(_, _, _, _, _)
reverse_patch(history, incoming, node_id, changed, k) ==
    IF k > Len(incoming) THEN [history |-> history, changes |-> changed]
    ELSE LET m == find_matching_node(incoming[k], history) IN
         IF m # 0
         THEN IF has_edge_to(history[m], node_id)
              THEN reverse_patch(history, incoming, node_id, changed, k + 1)
              ELSE reverse_patch(connect(history, m, node_id), incoming, node_id,
                                 TRUE, k + 1)
         ELSE reverse_patch(Append(history, missing_node(incoming[k], node_id)),
                            incoming, node_id, TRUE, k + 1)

\* one pass of "for task in tasks": re-audit, metadata update, forward patch,
\* reverse patch
FixTask ==
    /\ pc = "fix"
    /\ task_idx < Len(tasks)
    /\ LET i == tasks[task_idx + 1].index
           step == step_history[i]
           node_id == step.source_id
       IN  \E confirmed_incoming \in image.confirm_in[node_id],
              macro \in image.confirm_out[node_id] :
           \E verdict \in Verdicts(image, macro) :
           LET confirmed_outgoing ==
                   audit_node(step_history, step.source_bbox, macro, verdict)
               meta_changed ==
                   \/ opt_set(step.audit_confirmed_incoming) # opt_set(confirmed_incoming)
                   \/ opt_set(step.audit_confirmed_outgoing) # opt_set(confirmed_outgoing)
               kc == keep_confirmed(step.outgoing_edges,
                                    opt_set(confirmed_outgoing), <<>>, 1)
           IN  \E order \in Orders(IF confirmed_outgoing.some THEN kc.confirmed ELSE {}) :
               LET new_edges == IF confirmed_outgoing.some
                                THEN kc.kept \o added_edges(order)
                                ELSE step.outgoing_edges
                   forward_changed ==
                       /\ confirmed_outgoing.some
                       /\ \/ Len(kc.kept) # Len(step.outgoing_edges)
                          \/ order # <<>>
                   audited == [step_history EXCEPT
                                  ![i].audit_confirmed_incoming = confirmed_incoming,
                                  ![i].audit_confirmed_outgoing = confirmed_outgoing,
                                  ![i].outgoing_edges = new_edges]
                   rp == reverse_patch(audited, opt_list(confirmed_incoming), node_id,
                                       changes \/ meta_changed \/ forward_changed, 1)
               IN  /\ step_history' = rp.history
                   /\ changes' = rp.changes
                   /\ last_rewrite' = [index |-> i,
                                       confirmed |-> confirmed_outgoing,
                                       after |-> new_edges]
                   /\ iter_log' = [iter_log EXCEPT !.audited = Append(@, i)]
                   /\ audit_trail' =
                          [trailed(audit_trail, node_id, step.outgoing_edges,
                                   confirmed_incoming, confirmed_outgoing)
                           EXCEPT !.caught = @ \/ caught(step_history, step.source_bbox,
                                                         macro, verdict)]
    /\ task_idx' = task_idx + 1
    /\ UNCHANGED <<diff_vars, text_vars, merge_vars, refine_vars, nodes, resolve_log, pc, crawl_vars, audit_idx, attempt, tasks>>

-----------------------------------------------------------------------------
(* GraphInterpreter._run_consistency_loop *)

\* max_attempts=10 as process passes it
max_attempts == 10

\* an oracle whose audit_node has one answer per node
Steady(oracle) ==
    \A n \in DOMAIN oracle.confirm_in :
        Cardinality(oracle.confirm_in[n]) = 1 /\ Cardinality(oracle.confirm_out[n]) = 1

\* iter_log at the check of an iteration
checked(log, history, oracle) ==
    [iterations |-> log.iterations + 1,
     hist_len |-> Len(history),
     audited |-> <<>>,
     edge_sets |-> IF Steady(oracle) THEN Append(log.edge_sets, reported_edges(history))
                   ELSE <<>>]

\* "if not tasks: break" at the check of an iteration
LoopConverged ==
    /\ pc = "loop"
    /\ attempt < max_attempts
    /\ find_inconsistencies(step_history, 1) = <<>>
    /\ pc' = "done"
    /\ iter_log' = checked(iter_log, step_history, image)
    /\ UNCHANGED <<diff_vars, text_vars, merge_vars, refine_vars, nodes, resolve_log, step_history, crawl_vars, audit_idx, attempt,
                   tasks, task_idx, changes, last_rewrite,
                   audit_trail>>

\* the check of an iteration finds tasks: _execute_fix_batch starts
LoopFlagged ==
    /\ pc = "loop"
    /\ attempt < max_attempts
    /\ find_inconsistencies(step_history, 1) # <<>>
    /\ tasks' = find_inconsistencies(step_history, 1)
    /\ task_idx' = 0
    /\ changes' = FALSE
    /\ pc' = "fix"
    /\ iter_log' = checked(iter_log, step_history, image)
    /\ UNCHANGED <<diff_vars, text_vars, merge_vars, refine_vars, nodes, resolve_log, step_history, crawl_vars, audit_idx, attempt,
                   last_rewrite, audit_trail>>

\* mutant: the loop goes on to its next attempt after a batch without change
LoopGoesOn ==
    /\ pc = "fix"
    /\ task_idx = Len(tasks)
    /\ ~changes
    /\ attempt' = attempt + 1
    /\ pc' = "loop"
    /\ UNCHANGED <<diff_vars, text_vars, merge_vars, refine_vars, nodes, resolve_log, step_history, crawl_vars, audit_idx,
                   tasks, task_idx, changes, iter_log, last_rewrite, audit_trail>>

\* _execute_fix_batch returns changes_made = False: break
LoopNoChange ==
    /\ pc = "fix"
    /\ task_idx = Len(tasks)
    /\ ~changes
    /\ pc' = "done"
    /\ UNCHANGED <<diff_vars, text_vars, merge_vars, refine_vars, nodes, resolve_log, step_history, crawl_vars, audit_idx, attempt,
                   tasks, task_idx, changes, iter_log, last_rewrite,
                   audit_trail>>

\* mutant: the loop goes round again without using up an attempt
LoopSameAttempt ==
    /\ pc = "fix"
    /\ task_idx = Len(tasks)
    /\ changes
    /\ attempt' = attempt
    /\ pc' = "loop"
    /\ tasks' = <<>> /\ task_idx' = 0 /\ changes' = FALSE
    /\ UNCHANGED <<diff_vars, text_vars, merge_vars, refine_vars, nodes, resolve_log, step_history, crawl_vars, audit_idx, iter_log,
                   last_rewrite, audit_trail>>

\* _execute_fix_batch returns changes_made = True: next value of attempt
LoopNextAttempt ==
    /\ pc = "fix"
    /\ task_idx = Len(tasks)
    /\ changes
    /\ attempt' = attempt + 1
    /\ pc' = "loop"
    /\ tasks' = <<>> /\ task_idx' = 0 /\ changes' = FALSE
    /\ UNCHANGED <<diff_vars, text_vars, merge_vars, refine_vars, nodes, resolve_log, step_history, crawl_vars, audit_idx, iter_log,
                   last_rewrite, audit_trail>>

\* range(max_attempts) is used up
LoopExhausted ==
    /\ pc = "loop"
    /\ attempt = max_attempts
    /\ pc' = "done"
    /\ UNCHANGED <<diff_vars, text_vars, merge_vars, refine_vars, nodes, resolve_log, step_history, crawl_vars, audit_vars>>

-----------------------------------------------------------------------------
(* FlowchartStrategy.synthesize and the DiagramResult of process *)

Unknown == <<"U", "n", "k", "n", "o", "w", "n">>

\* "-->" or f"-->|{edge.edge_label}|"
arrow(edge) ==
    IF Truthy(edge.edge_label)
    THEN <<"-", "-", ">", "|">> \o edge.edge_label.val \o <<"|">>
    ELSE <<"-", "-", ">">>

\* f"{src} {arrow} {edge.target_id}{meta}" with use_grid off, so meta is ""
line(step, edge) ==
    (IF step.source_id = <<>> THEN Unknown ELSE step.source_id)
        \o <<" ">> \o arrow(edge) \o <<" ">> \o edge.target_id

\* unique_lines as a set: raw_content joins its sorted lines, one per line
\* of text, so it is given by the set
synthesize(history) ==
    UNION {{line(history[i], history[i].outgoing_edges[k]) :
              k \in DOMAIN history[i].outgoing_edges} : i \in DOMAIN history}

\* what process returns of the run: raw_content and full_description (the
\* number of steps). content, usage and cost_usd are the oracle's text and
\* token counts; diagram_type, output_format and model_name are fixed.
DiagramResult(history) ==
    [raw_content |-> synthesize(history), full_description |-> Len(history)]

-----------------------------------------------------------------------------
(* Failures of the oracle's calls. _crawl, _run_initial_audit,                *)
(* _execute_fix_batch, _run_consistency_loop and process have no try block     *)
(* around a strategy call: the exception leaves process.                       *)

\* strategy.find_initial_focus raises in _crawl
FindInitialFocusFails ==
    /\ pc = "start"
    /\ image.failing
    /\ pc' = "raised"
    /\ UNCHANGED <<diff_vars, text_vars, merge_vars, refine_vars, nodes, resolve_log, step_history, crawl_vars, audit_vars>>

\* strategy.interpret_step raises in a pass of the while loop of _crawl
InterpretStepFails ==
    /\ pc = "crawl"
    /\ frontier_queue # <<>> /\ step_count < StepCeiling
    /\ popped(frontier_queue).suggested_id.val \notin visited_ids
    /\ image.failing
    /\ pc' = "raised"
    /\ UNCHANGED <<diff_vars, text_vars, merge_vars, refine_vars, nodes, resolve_log, step_history, crawl_vars, audit_vars>>

\* the full-image query of strategy.audit_node raises, in _run_initial_audit
\* or in _execute_fix_batch
AuditNodeFails ==
    /\ \/ pc = "crawled" /\ audit_idx < Len(step_history)
       \/ pc = "fix" /\ task_idx < Len(tasks)
    /\ image.failing
    /\ pc' = "raised"
    /\ UNCHANGED <<diff_vars, text_vars, merge_vars, refine_vars, nodes, resolve_log, step_history, crawl_vars, audit_vars>>

-----------------------------------------------------------------------------
(* Specification of a whole run of process: crawl, initial audit, loop *)

\* traversal_mode has its default; both modes are explored under SpecCrawl
InitRun ==
    /\ nodes = <<>>
    /\ resolve_log = <<>>
    /\ pc = "start"
    /\ mode = "dfs"
    /\ image \in RunImages
    /\ step_history = <<>>
    /\ frontier_queue = <<>>
    /\ visited_ids = {}
    /\ step_count = 0
    /\ interpret_calls = 0
    /\ IdleAudit
    /\ IdleRefine
    /\ IdleDiff /\ IdleText /\ IdleMerge

NextRun ==
    \/ CrawlStart \/ CrawlSkip \/ CrawlExplore \/ CrawlReturn
    \/ InitialAuditStep \/ InitialAuditReturn
    \/ LoopConverged \/ LoopFlagged \/ FixTask
    \/ LoopNoChange \/ LoopNextAttempt \/ LoopExhausted
    \/ FindInitialFocusFails \/ InterpretStepFails \/ AuditNodeFails

SpecRun == InitRun /\ [][NextRun]_vars

-----------------------------------------------------------------------------
(* DraftRefinePipeline._apply_structural_corrections, in draft_refine.py and   *)
(* in draft_refine_structured.py; draft_refine/models.py Node, Edge            *)
(*                                                                             *)
(* Ids, labels, shapes and styles are atomic strings here: the corrections     *)
(* compare them and never take them apart. A field of a node or an edge holds  *)
(* Some(text), or None where the code stored None. GraphStructure.nodes is a   *)
(* function on the ids it has: dict equality does not depend on the order of   *)
(* insertion. Node.actor is left out: no operation reads or writes it.         *)

\* Literal["rect", "diamond", "round", "stadium", "hex", "circle"]
Shapes == {"rect", "diamond", "round", "stadium", "hex", "circle"}

\* Literal["-->", "---", "-.->", "==>", "==="]
Styles == {"-->", "---", "-.->", "==>", "==="}

\* "x or default" for an Optional[str]
or_else(o, default) == IF o.some /\ o.val # "" THEN o.val ELSE default

\* "d.get(key, default)"
get(o, default) == IF o.some THEN o.val ELSE default

\* Node(id=..., label=..., shape=...) passes validation: id and label are str
\* and shape is of the Literal
Node_valid(id, label, shape) == id.some /\ label.some /\ shape.some /\ shape.val \in Shapes

Node(label, shape) == [label |-> label, shape |-> shape]

\* Edge(src=..., dst=..., label=..., style=...) passes validation
Edge_valid(src, dst, label, style) ==
    src.some /\ dst.some /\ label.some /\ style.some /\ style.val \in Styles

Edge(src, dst, label, style) == [src |-> src, dst |-> dst, label |-> label, style |-> style]

GraphStructure(ns, es) == [nodes |-> ns, edges |-> es]

\* "e.src == src and e.dst == dst"
same_ends(e, src, dst) == Some(e.src) = src /\ Some(e.dst) = dst

\* mutant: add_edge has no check for an edge with the same endpoints
never_exists(edges, src, dst) == FALSE

\* "any(e.src == src and e.dst == dst for e in graph.edges)"
already_exists(edges, src, dst) == \E k \in DOMAIN edges : same_ends(edges[k], src, dst)

\* "[e for e in graph.edges if not (e.src == src and e.dst == dst)]"
without_edge(edges, src, dst) ==
    LET keeps(e) == ~same_ends(e, src, dst) IN SelectSeq(edges, keeps)

\* "[e for e in graph.edges if e.src != nid and e.dst != nid]"
without_incident(edges, nid) ==
    LET keeps(e) == e.src # nid /\ e.dst # nid IN SelectSeq(edges, keeps)

\* graph.nodes.pop(nid), del graph.nodes[nid]
without_node(ns, nid) == [n \in DOMAIN ns \ {nid} |-> ns[n]]

\* graph.nodes[nid] = node
with_node(ns, nid, node) == [n \in DOMAIN ns \cup {nid} |-> IF n = nid THEN node ELSE ns[n]]

\* "nid in graph.nodes"
has_node(g, nid) == nid.some /\ nid.val \in DOMAIN g.nodes

\* the outcomes of one pass of the loop: the operation counted as applied, the
\* operation passed over (target missing, already there, unknown, or an
\* exception the except clause caught), or an exception that leaves the method
applied(g) == [graph |-> g, outcome |-> "applied"]

skipped(g) == [graph |-> g, outcome |-> "skipped"]

raised(g) == [graph |-> g, outcome |-> "raised"]

\* one pass of the loop of draft_refine.py on the JSON object d: op_data["k"]
\* raises KeyError for an absent key, which "except (KeyError, TypeError)"
\* catches; a pydantic ValidationError of Node(...) or Edge(...) is a
\* ValueError, which it does not catch; an assignment to a field of a Node is
\* not validated
apply_standard(g, d) ==
    CASE d.op = Some("relabel") ->
            IF ~d.node_id.some THEN skipped(g)
            ELSE IF ~has_node(g, d.node_id) THEN skipped(g)
            ELSE IF ~d.new_label.some THEN skipped(g)
            ELSE applied([g EXCEPT !.nodes[d.node_id.val].label = d.new_label])
      [] d.op = Some("reshape") ->
            IF ~d.node_id.some THEN skipped(g)
            ELSE IF ~has_node(g, d.node_id) THEN skipped(g)
            ELSE IF ~d.new_shape.some THEN skipped(g)
            ELSE applied([g EXCEPT !.nodes[d.node_id.val].shape = d.new_shape])
      [] d.op = Some("add_edge") ->
            IF ~d.src.some \/ ~d.dst.some THEN skipped(g)
            ELSE IF already_exists(g.edges, d.src, d.dst) THEN skipped(g)
            ELSE IF ~Edge_valid(d.src, d.dst, Some(get(d.label, "")),
                                Some(get(d.style, "-->")))
                 THEN raised(g)
            ELSE applied([g EXCEPT !.edges =
                     Append(@, Edge(d.src.val, d.dst.val, Some(get(d.label, "")),
                                    Some(get(d.style, "-->"))))])
      [] d.op = Some("remove_edge") ->
            IF ~d.src.some \/ ~d.dst.some THEN skipped(g)
            ELSE IF Len(without_edge(g.edges, d.src, d.dst)) < Len(g.edges)
                 THEN applied([g EXCEPT !.edges = without_edge(@, d.src, d.dst)])
                 ELSE skipped(g)
      [] d.op = Some("add_node") ->
            IF ~d.node_id.some THEN skipped(g)
            ELSE IF has_node(g, d.node_id) THEN skipped(g)
            ELSE IF ~d.label.some THEN skipped(g)
            ELSE IF ~Node_valid(d.node_id, d.label, Some(get(d.shape, "rect")))
                 THEN raised(g)
            ELSE applied([g EXCEPT !.nodes =
                     with_node(@, d.node_id.val,
                               Node(d.label, Some(get(d.shape, "rect"))))])
      [] d.op = Some("remove_node") ->
            IF ~d.node_id.some THEN skipped(g)
            ELSE IF has_node(g, d.node_id)
                 THEN applied(GraphStructure(without_node(g.nodes, d.node_id.val),
                                             without_incident(g.edges, d.node_id.val)))
                 ELSE skipped(g)
      [] d.op = Some("relabel_edge") ->
            IF ~d.src.some \/ ~d.dst.some THEN skipped(g)
            ELSE IF already_exists(g.edges, d.src, d.dst)
                 THEN LET k == CHOOSE k \in DOMAIN g.edges :
                                 /\ same_ends(g.edges[k], d.src, d.dst)
                                 /\ \A j \in 1..(k - 1) : ~same_ends(g.edges[j], d.src, d.dst)
                      IN  applied([g EXCEPT !.edges[k].label = Some(get(d.new_label, ""))])
                 ELSE skipped(g)
      [] OTHER -> skipped(g)

\* one pass of the loop of draft_refine_structured.py on the GraphOperation d:
\* an absent field is None, and "except Exception" catches every exception
apply_structured(g, d) ==
    CASE d.op = Some("relabel") ->
            IF has_node(g, d.node_id)
            THEN applied([g EXCEPT !.nodes[d.node_id.val].label = d.new_label])
            ELSE skipped(g)
      [] d.op = Some("reshape") ->
            IF has_node(g, d.node_id)
            THEN applied([g EXCEPT !.nodes[d.node_id.val].shape = d.new_shape])
            ELSE skipped(g)
      [] d.op = Some("add_edge") ->
            IF already_exists(g.edges, d.src, d.dst) THEN skipped(g)
            ELSE IF ~Edge_valid(d.src, d.dst, Some(or_else(d.label, "")),
                                Some(or_else(d.style, "-->")))
                 THEN skipped(g)
            ELSE applied([g EXCEPT !.edges =
                     Append(@, Edge(d.src.val, d.dst.val, Some(or_else(d.label, "")),
                                    Some(or_else(d.style, "-->"))))])
      [] d.op = Some("remove_edge") ->
            IF Len(without_edge(g.edges, d.src, d.dst)) < Len(g.edges)
            THEN applied([g EXCEPT !.edges = without_edge(@, d.src, d.dst)])
            ELSE skipped(g)
      [] d.op = Some("add_node") ->
            IF has_node(g, d.node_id) THEN skipped(g)
            ELSE IF ~d.node_id.some THEN skipped(g)
            ELSE IF ~Node_valid(d.node_id, Some(or_else(d.label, d.node_id.val)),
                                Some(or_else(d.new_shape, "rect")))
                 THEN skipped(g)
            ELSE applied([g EXCEPT !.nodes =
                     with_node(@, d.node_id.val,
                               Node(Some(or_else(d.label, d.node_id.val)),
                                    Some(or_else(d.new_shape, "rect"))))])
      [] d.op = Some("remove_node") ->
            IF has_node(g, d.node_id)
            THEN applied(GraphStructure(without_node(g.nodes, d.node_id.val),
                                        without_incident(g.edges, d.node_id.val)))
            ELSE skipped(g)
      [] d.op = Some("relabel_edge") ->
            IF already_exists(g.edges, d.src, d.dst)
            THEN applied([g EXCEPT !.edges =
                     [k \in DOMAIN @ |-> IF same_ends(@[k], d.src, d.dst)
                                         THEN [@[k] EXCEPT !.label = d.label]
                                         ELSE @[k]]])
            ELSE skipped(g)
      [] OTHER -> skipped(g)

-----------------------------------------------------------------------------
(* Inputs of the corrections: draft graphs and the operations of a batch *)

\* most operations in one batch
MaxOps == 3

Of(op) == [NoKeys EXCEPT !.op = Some(op)]

OnNode(op, nid) == [Of(op) EXCEPT !.node_id = Some(nid)]

OnEdge(op, src, dst) == [Of(op) EXCEPT !.src = Some(src), !.dst = Some(dst)]

\* operations both pipelines may get: on the nodes A and B and the missing node
\* X, with fields given, absent, or outside the enumerations
CommonOperations ==
    {[OnNode("relabel", "A") EXCEPT !.new_label = Some("ok")],
     [OnNode("relabel", "X") EXCEPT !.new_label = Some("ok")],
     OnNode("relabel", "A"),
     [OnNode("reshape", "A") EXCEPT !.new_shape = Some("diamond")],
     [OnNode("reshape", "A") EXCEPT !.new_shape = Some("triangle")],
     OnNode("reshape", "B"),
     [OnEdge("add_edge", "B", "A") EXCEPT !.label = Some("ok"), !.style = Some("---")],
     OnEdge("add_edge", "A", "B"),
     [OnEdge("add_edge", "B", "A") EXCEPT !.style = Some("->")],
     OnEdge("add_edge", "A", "X"),
     [Of("add_edge") EXCEPT !.dst = Some("A")],
     OnEdge("remove_edge", "A", "B"),
     OnEdge("remove_edge", "B", "A"),
     [OnNode("add_node", "X") EXCEPT !.label = Some("ok")],
     OnNode("add_node", "X"),
     [OnNode("add_node", "A") EXCEPT !.label = Some("ok")],
     OnNode("remove_node", "A"),
     OnNode("remove_node", "X"),
     Of("remove_node"),
     [OnEdge("relabel_edge", "A", "B") EXCEPT !.new_label = Some("ok"), !.label = Some("ok")],
     OnEdge("relabel_edge", "B", "A")}

\* what the JSON of draft_refine.py may hold: also an unknown op, no op, and
\* the "shape" key of add_node
StandardOperations ==
    CommonOperations \cup
    {Of("merge"), NoKeys,
     [OnNode("add_node", "X") EXCEPT !.label = Some("ok"), !.shape = Some("triangle")],
     [OnNode("add_node", "X") EXCEPT !.label = Some("ok"), !.shape = Some("hex")]}

\* what a validated CorrectionPlan may hold: op is of the Literal, add_node
\* takes its shape from new_shape
StructuredOperations ==
    CommonOperations \cup
    {[OnNode("add_node", "X") EXCEPT !.new_shape = Some("triangle")],
     [OnNode("add_node", "X") EXCEPT !.label = Some("ok"), !.new_shape = Some("hex")]}

DraftNodes ==
    [n \in {"A", "B"} |-> Node(Some(n), Some("rect"))]

\* drafts whose edges join existing nodes: A -> B, two edges A -> B with
\* different labels, and A <-> B
DraftGraphs ==
    {GraphStructure(DraftNodes, <<Edge("A", "B", Some(""), Some("-->"))>>),
     GraphStructure(DraftNodes, <<Edge("A", "B", Some("no"), Some("-->")),
                                  Edge("A", "B", Some("yes"), Some("-->"))>>),
     GraphStructure(DraftNodes, <<Edge("A", "B", Some(""), Some("-->")),
                                  Edge("B", "A", Some(""), Some("==>"))>>)}

-----------------------------------------------------------------------------
(* Specification of the corrections: any batch of at most MaxOps operations *)

\* mutant: no copy is made, the method writes to the graph it was given
same_object(given, working) == working

\* "graph = copy.deepcopy(graph)": the graph the method writes to is an object
\* of its own, with its own nodes and edges; the graph it was given is not
\* reached by a write to the working graph
deepcopied(given, working) == given

\* the ghost record after a pass on d with result r
trail_after(trail, g, d, r) ==
    [op |-> d, outcome |-> r.outcome, prev |-> trail.op, prev_outcome |-> trail.outcome,
     before |-> g]

\* one pass of "for op_data in data.get("operations", [])" that ends normally
StandardOperation ==
    /\ pc = "refine"
    /\ pipeline = "standard"
    /\ op_count < MaxOps
    /\ \E d \in StandardOperations :
          LET r == apply_standard(graph, d) IN
          /\ r.outcome # "raised"
          /\ graph' = r.graph
          /\ draft_graph' = deepcopied(draft_graph, r.graph)
          /\ op_trail' = trail_after(op_trail, graph, d, r)
    /\ op_count' = op_count + 1
    /\ UNCHANGED <<diff_vars, text_vars, merge_vars, nodes, resolve_log, pc, step_history, crawl_vars, audit_vars, pipeline>>

\* one pass that an exception leaves, and the method with it: the caller's
\* graph is as it was (the method works on a deepcopy)
StandardOperationRaises ==
    /\ pc = "refine"
    /\ pipeline = "standard"
    /\ op_count < MaxOps
    /\ \E d \in StandardOperations :
          LET r == apply_standard(graph, d) IN
          /\ r.outcome = "raised"
          /\ draft_graph' = deepcopied(draft_graph, graph)
          /\ op_trail' = trail_after(op_trail, graph, d, r)
    /\ pc' = "raised"
    /\ op_count' = op_count + 1
    /\ UNCHANGED <<diff_vars, text_vars, merge_vars, nodes, resolve_log, step_history, crawl_vars, audit_vars, pipeline,
                   graph>>

\* one pass of "for op in plan.operations"
StructuredOperation ==
    /\ pc = "refine"
    /\ pipeline = "structured"
    /\ op_count < MaxOps
    /\ \E d \in StructuredOperations :
          LET r == apply_structured(graph, d) IN
          /\ graph' = r.graph
          /\ draft_graph' = deepcopied(draft_graph, r.graph)
          /\ op_trail' = trail_after(op_trail, graph, d, r)
    /\ op_count' = op_count + 1
    /\ UNCHANGED <<diff_vars, text_vars, merge_vars, nodes, resolve_log, pc, step_history, crawl_vars, audit_vars, pipeline>>

\* the batch has no more operations: the method returns the graph
RefineReturn ==
    /\ pc = "refine"
    /\ pc' = "refined"
    /\ UNCHANGED <<diff_vars, text_vars, merge_vars, nodes, resolve_log, step_history, crawl_vars, audit_vars, refine_vars>>

InitRefine ==
    /\ nodes = <<>>
    /\ resolve_log = <<>>
    /\ pc = "refine"
    /\ step_history = <<>>
    /\ IdleCrawl
    /\ IdleAudit
    /\ pipeline \in {"standard", "structured"}
    /\ graph \in DraftGraphs
    /\ op_count = 0
    /\ op_trail = NoOperation
    /\ draft_graph = graph
    /\ IdleDiff /\ IdleText /\ IdleMerge

NextRefine ==
    StandardOperation \/ StandardOperationRaises \/ StructuredOperation \/ RefineReturn

SpecRefine == InitRefine /\ [][NextRefine]_vars

-----------------------------------------------------------------------------
(* draft_refine/models.py GraphStructure as text is made from it and parsed   *)
(* into it: ids, labels, actors, styles and directions are strings of the     *)
(* program; GraphStructure.nodes is the list of its Node values in the order  *)
(* of insertion, with one entry per id; a shape is a name of the enumeration. *)

NodeEntry(id, label, shape, actor) ==
    [id |-> id, label |-> label, shape |-> shape, actor |-> actor]

EdgeEntry(src, dst, label, style) ==
    [src |-> src, dst |-> dst, label |-> label, style |-> style]

Diagram(direction, ns, es) == [direction |-> direction, nodes |-> ns, edges |-> es]

TD == <<"T", "D">>

\* style: "-->" by default
Arrow == <<"-", "-", ">">>

\* GraphStructure()
EmptyDiagram == Diagram(TD, <<>>, <<>>)

\* set(self.nodes.keys())
node_ids(g) == {g.nodes[k].id : k \in DOMAIN g.nodes}

\* self.nodes[nid]
node_of(g, nid) == g.nodes[CHOOSE k \in DOMAIN g.nodes : g.nodes[k].id = nid]

\* {(e.src, e.dst) for e in self.edges}
edge_set(g) == {<<g.edges[k].src, g.edges[k].dst>> : k \in DOMAIN g.edges}

\* "[e for e in edges if (e.src, e.dst) not in pairs]"
edges_outside(edges, pairs) ==
    LET outside(e) == <<e.src, e.dst>> \notin pairs IN SelectSeq(edges, outside)

\* mutant: every node of other is reported as added
diff_from_nothing(self, oth) ==
    [added_nodes |-> Range(oth.nodes),
     removed_nodes |-> {},
     changed_labels |-> {},
     changed_shapes |-> {},
     changed_actors |-> {},
     added_edges |-> edges_outside(oth.edges, edge_set(self)),
     removed_edges |-> edges_outside(self.edges, edge_set(oth))]

\* GraphStructure.diff: the dicts of the GraphDiff as sets of their items
diff(self, oth) ==
    LET shared == node_ids(self) \cap node_ids(oth) IN
    [added_nodes |-> {node_of(oth, nid) : nid \in node_ids(oth) \ node_ids(self)},
     removed_nodes |-> {node_of(self, nid) : nid \in node_ids(self) \ node_ids(oth)},
     changed_labels |->
        {<<nid, node_of(self, nid).label, node_of(oth, nid).label>> :
            nid \in {n \in shared : node_of(self, n).label # node_of(oth, n).label}},
     changed_shapes |->
        {<<nid, node_of(self, nid).shape, node_of(oth, nid).shape>> :
            nid \in {n \in shared : node_of(self, n).shape # node_of(oth, n).shape}},
     changed_actors |->
        {<<nid, node_of(self, nid).actor, node_of(oth, nid).actor>> :
            nid \in {n \in shared : node_of(self, n).actor # node_of(oth, n).actor}},
     added_edges |-> edges_outside(oth.edges, edge_set(self)),
     removed_edges |-> edges_outside(self.edges, edge_set(oth))]

\* GraphDiff.is_empty
is_empty(d) ==
    /\ d.added_nodes = {} /\ d.removed_nodes = {}
    /\ d.changed_labels = {} /\ d.changed_shapes = {} /\ d.changed_actors = {}
    /\ d.added_edges = <<>> /\ d.removed_edges = <<>>

-----------------------------------------------------------------------------
(* Inputs: graphs with unique ids *)

\* most edges of such a graph
MaxEdges == 2

id_B == <<"B">>

id_C == <<"C">>

label_go == <<"g", "o">>

label_x == <<"x">>

actor_U == <<"U">>

ShapeNames == {"rect", "diamond", "round", "stadium", "hex", "circle"}

StyleTexts ==
    {<<"-", "-", ">">>, <<"-", "-", "-">>, <<"-", ".", "-", ">">>,
     <<"=", "=", ">">>, <<"=", "=", "=">>}

\* one node A of any shape, with or without an actor
LoneNodes ==
    {<<NodeEntry(id_A, l, sh, ac)>> :
        l \in {label_go, label_x}, sh \in ShapeNames, ac \in {None, Some(actor_U)}}

\* the nodes A and B in this order, each with or without an actor
PairNodes ==
    {<<NodeEntry(id_A, label_go, "rect", a), NodeEntry(id_B, label_x, "diamond", b)>> :
        a \in {None, Some(actor_U)}, b \in {None, Some(actor_U)}}

\* edges between A and B of any style, labelled or not
PairEdges ==
    {EdgeEntry(pr[1], pr[2], l, st) :
        pr \in {<<id_A, id_B>>, <<id_B, id_A>>}, l \in {<<>>, label_x}, st \in StyleTexts}

Diagrams ==
    {Diagram(TD, ns, <<>>) : ns \in {<<>>} \cup LoneNodes}
    \cup {Diagram(TD, ns, es) : ns \in PairNodes, es \in SeqsUpTo(PairEdges, MaxEdges)}

\* a node that is not in the graphs above
NewNodes ==
    {NodeEntry(id_C, l, sh, ac) :
        l \in {label_go}, sh \in {"rect", "hex"}, ac \in {None, Some(actor_U)}}

\* the sequence s with x put in before position k
inserted(s, x, k) == SubSeq(s, 1, k - 1) \o <<x>> \o SubSeq(s, k, Len(s))

\* what a graph is diffed against: itself, itself with a node more, with a node
\* less, with a node changed, with an edge more or less
Variants(g) ==
    {g}
    \cup {[g EXCEPT !.nodes = inserted(@, n, k)] :
             n \in NewNodes, k \in 1..(Len(g.nodes) + 1)}
    \cup {[g EXCEPT !.nodes = Tail(@)] : k \in {1} \cap DOMAIN g.nodes}
    \cup {[g EXCEPT !.nodes[k].label = <<"n", "e", "w">>] : k \in DOMAIN g.nodes}
    \cup {[g EXCEPT !.nodes[k].shape = "circle"] : k \in DOMAIN g.nodes}
    \cup {[g EXCEPT !.nodes[k].actor = Some(<<"V">>)] : k \in DOMAIN g.nodes}
    \cup {[g EXCEPT !.edges = Tail(@)] : k \in {1} \cap DOMAIN g.edges}
    \cup {[g EXCEPT !.edges = Append(@, EdgeEntry(id_A, id_A, <<>>, Arrow))] :
             k \in {1} \cap DOMAIN g.nodes}

-----------------------------------------------------------------------------
(* Specification of GraphStructure.diff: a graph against a variant of it *)

\* d = self.diff(other)
Diff ==
    /\ pc = "diff"
    /\ graph_diff' = diff(graph, other_graph)
    /\ pc' = "diffed"
    /\ UNCHANGED <<engine_vars, graph, other_graph, text_vars, merge_vars>>

InitDiff ==
    /\ IdleEngine /\ IdleText /\ IdleMerge
    /\ pc = "diff"
    /\ graph \in Diagrams
    /\ other_graph \in Variants(graph)
    /\ graph_diff = <<>>

NextDiff == Diff

SpecDiff == InitDiff /\ [][NextDiff]_vars

-----------------------------------------------------------------------------
(* The regular expressions of mermaid.py: re.match, re.search and re.sub over *)
(* a line. A pattern is matched as the re module matches it: alternatives in  *)
(* the order written, a greedy repetition the longest first, a lazy one the   *)
(* shortest first, and the first way that lets the rest of the pattern match  *)
(* is the match.                                                              *)

Letters ==
    {"A", "B", "C", "D", "E", "F", "G", "H", "I", "J", "K", "L", "M",
     "N", "O", "P", "Q", "R", "S", "T", "U", "V", "W", "X", "Y", "Z",
     "a", "b", "c", "d", "e", "f", "g", "h", "i", "j", "k", "l", "m",
     "n", "o", "p", "q", "r", "s", "t", "u", "v", "w", "x", "y", "z"}

Digits == {"0", "1", "2", "3", "4", "5", "6", "7", "8", "9"}

\* [class]
OneOf(S) == [kind |-> "set", set |-> S]

\* .
Dot == [kind |-> "any"]

\* r1 r2 ...
Cat(parts) == [kind |-> "cat", parts |-> parts]

\* r1|r2|...
Alt(options) == [kind |-> "alt", options |-> options]

\* r*
Star(r) == [kind |-> "star", r |-> r, greedy |-> TRUE, least |-> 0]

\* r*?
LazyStar(r) == [kind |-> "star", r |-> r, greedy |-> FALSE, least |-> 0]

\* r+
Plus(r) == [kind |-> "star", r |-> r, greedy |-> TRUE, least |-> 1]

\* r+?
LazyPlus(r) == [kind |-> "star", r |-> r, greedy |-> FALSE, least |-> 1]

\* (r), the n-th group of the pattern
Group(n, r) == [kind |-> "group", n |-> n, r |-> r]

\* (?!r)
NotAhead(r) == [kind |-> "not", r |-> r]

\* $
AtEnd == [kind |-> "end"]

\* the characters of str, one after the other
Lit(str) == [kind |-> "lit", str |-> str]

\* \s within a line
Sp == OneOf({" "})

\* \w
Word == OneOf(Letters \cup Digits \cup {"_"})

\* [A-Za-z_]\w*
Ident == Cat(<<OneOf(Letters \cup {"_"}), Star(Word)>>)

\* most groups of a pattern
MaxGroups == 3

NoGroups == [n \in 1..MaxGroups |-> <<0, 0>>]

NoMatch == [ok |-> FALSE, start |-> 0, end |-> 0, groups |-> NoGroups]

\* F of the value of e, which is computed once
With(e, F(_)) == CHOOSE y \in {F(x) : x \in {e}} : TRUE

\* a pattern that takes one character at a time: a class, a dot, or an
\* alternation of one of them with literals made of characters it takes, as
\* (?:.|\\n), whose repetition ends where that of its first option ends
by_character(r) ==
    \/ r.kind \in {"set", "any"}
    \/ /\ r.kind = "alt"
       /\ Len(r.options) > 0
       /\ r.options[1].kind \in {"set", "any"}
       /\ \A k \in 2..Len(r.options) :
            /\ r.options[k].kind = "lit"
            /\ \A c \in Range(r.options[k].str) :
                 IF r.options[1].kind = "set" THEN c \in r.options[1].set ELSE c # "\n"

\* how many characters of s from offset i on the pattern r takes one by one
span(r, s, i) ==
    LET one == IF r.kind = "alt" THEN r.options[1] ELSE r
        takes(c) == IF one.kind = "set" THEN c \in one.set ELSE c # "\n"
        stops == {j \in i..Len(s) : j = Len(s) \/ ~takes(s[j + 1])}
    IN  (CHOOSE j \in stops : \A k \in stops : j <= k) - i

\* the first way to match the patterns of todo one after the other in s from
\* offset i on, g being the groups closed so far: of the alternatives the
\* first that lets the rest match, and of the counts of a repetition of a
\* pattern that takes one character at a time the largest that does when
\* greedy, the smallest when lazy
RECURSIVE run(_, _, _, _, _)
run(todo, s, from, i, g) ==
    CASE Len(todo) = 0 -> [ok |-> TRUE, start |-> from, end |-> i, groups |-> g]
      [] Len(todo) > 0 /\ Head(todo).kind = "set" ->
            IF i < Len(s) /\ s[i + 1] \in Head(todo).set
            THEN run(Tail(todo), s, from, i + 1, g) ELSE NoMatch
      [] Len(todo) > 0 /\ Head(todo).kind = "lit" ->
            IF /\ i + Len(Head(todo).str) <= Len(s)
               /\ SubSeq(s, i + 1, i + Len(Head(todo).str)) = Head(todo).str
            THEN run(Tail(todo), s, from, i + Len(Head(todo).str), g) ELSE NoMatch
      [] Len(todo) > 0 /\ Head(todo).kind = "any" ->
            IF i < Len(s) /\ s[i + 1] # "\n"
            THEN run(Tail(todo), s, from, i + 1, g) ELSE NoMatch
      [] Len(todo) > 0 /\ Head(todo).kind = "cat" ->
            run(Head(todo).parts \o Tail(todo), s, from, i, g)
      [] Len(todo) > 0 /\ Head(todo).kind = "alt" ->
            With({<<k, run(<<Head(todo).options[k]>> \o Tail(todo), s, from, i, g)>> :
                    k \in DOMAIN Head(todo).options},
                 LAMBDA tries :
                   IF \A t \in tries : ~t[2].ok THEN NoMatch
                   ELSE (CHOOSE t \in tries :
                            t[2].ok /\ \A u \in tries : u[2].ok => t[1] <= u[1])[2])
      [] Len(todo) > 0 /\ Head(todo).kind = "star" /\ by_character(Head(todo).r) ->
            With({<<k, run(Tail(todo), s, from, i + k, g)>> :
                    k \in Head(todo).least..span(Head(todo).r, s, i)},
                 LAMBDA tries :
                   IF \A t \in tries : ~t[2].ok THEN NoMatch
                   ELSE (CHOOSE t \in tries :
                            /\ t[2].ok
                            /\ \A u \in tries :
                                  u[2].ok => IF Head(todo).greedy THEN u[1] <= t[1]
                                             ELSE t[1] <= u[1])[2])
      [] Len(todo) > 0 /\ Head(todo).kind = "star" /\ ~by_character(Head(todo).r) ->
            IF Head(todo).least > 0
            THEN run(<<Head(todo).r, [Head(todo) EXCEPT !.least = @ - 1]>> \o Tail(todo),
                     s, from, i, g)
            ELSE IF Head(todo).greedy
            THEN With(run(<<Head(todo).r, Head(todo)>> \o Tail(todo), s, from, i, g),
                      LAMBDA more :
                        IF more.ok THEN more ELSE run(Tail(todo), s, from, i, g))
            ELSE With(run(Tail(todo), s, from, i, g),
                      LAMBDA stop :
                        IF stop.ok THEN stop
                        ELSE run(<<Head(todo).r, Head(todo)>> \o Tail(todo),
                                 s, from, i, g))
      [] Len(todo) > 0 /\ Head(todo).kind = "group" ->
            run(<<Head(todo).r,
                  [kind |-> "close", n |-> Head(todo).n, open |-> i]>> \o Tail(todo),
                s, from, i, g)
      [] Len(todo) > 0 /\ Head(todo).kind = "close" ->
            run(Tail(todo), s, from, i, [g EXCEPT ![Head(todo).n] = <<Head(todo).open, i>>])
      [] Len(todo) > 0 /\ Head(todo).kind = "not" ->
            IF run(<<Head(todo).r>>, s, from, i, g).ok THEN NoMatch
            ELSE run(Tail(todo), s, from, i, g)
      [] Len(todo) > 0 /\ Head(todo).kind = "end" ->
            IF i = Len(s) THEN run(Tail(todo), s, from, i, g) ELSE NoMatch

\* re.match(r, s)
re_match(r, s) == run(<<r>>, s, 0, 0, NoGroups)

\* re.search(r, s), looking from offset i on: the match at the first offset
\* that has one
re_search_from(r, s, i) ==
    With({<<j, run(<<r>>, s, j, j, NoGroups)>> : j \in i..Len(s)},
         LAMBDA tries :
           IF \A t \in tries : ~t[2].ok THEN NoMatch
           ELSE (CHOOSE t \in tries :
                    t[2].ok /\ \A u \in tries : u[2].ok => t[1] <= u[1])[2])

\* re.search(r, s)
re_search(r, s) == re_search_from(r, s, 0)

\* m.group(n)
group(s, m, n) == SubSeq(s, m.groups[n][1] + 1, m.groups[n][2])

\* s[:i]
upto(s, i) == SubSeq(s, 1, i)

\* s[i:]
from_on(s, i) == SubSeq(s, i + 1, Len(s))

-----------------------------------------------------------------------------
(* draft_refine/models.py GraphStructure.to_mermaid *)

RECURSIVE concat(_)
concat(seqs) == IF Len(seqs) = 0 THEN <<>> ELSE Head(seqs) \o concat(Tail(seqs))

\* "\n".join(lines)
RECURSIVE join_lines(_)
join_lines(lines) ==
    IF Len(lines) = 0 THEN <<>>
    ELSE IF Len(lines) = 1 THEN lines[1]
    ELSE lines[1] \o <<"\n">> \o join_lines(Tail(lines))

\* the brackets of _node_str; a shape outside the table gets those of "rect"
brackets(shape) ==
    CASE shape = "round" -> <<<<"(">>, <<")">>>>
      [] shape = "diamond" -> <<<<"{">>, <<"}">>>>
      [] shape = "stadium" -> <<<<"(", "[">>, <<"]", ")">>>>
      [] shape = "hex" -> <<<<"{", "{">>, <<"}", "}">>>>
      [] shape = "circle" -> <<<<"(", "(">>, <<")", ")">>>>
      [] OTHER -> <<<<"[">>, <<"]">>>>

\* x.replace('"', "'")
safe(x) == [k \in DOMAIN x |-> IF x[k] = "\"" THEN "'" ELSE x[k]]

\* GraphStructure._node_str
node_str(node) ==
    node.id \o brackets(node.shape)[1] \o <<"\"">> \o safe(node.label) \o <<"\"">>
        \o brackets(node.shape)[2]

\* "if node.actor:"
has_actor(node) == node.actor.some /\ node.actor.val # <<>>

\* the keys of nodes_by_actor, in the order of insertion
RECURSIVE actor_names(_, _)
actor_names(ns, seen) ==
    IF Len(ns) = 0 THEN seen
    ELSE actor_names(Tail(ns),
            IF has_actor(Head(ns)) /\ Head(ns).actor.val \notin Range(seen)
            THEN Append(seen, Head(ns).actor.val) ELSE seen)

indent4 == <<" ", " ", " ", " ">>

\* the lines of the subgraph of the k-th actor
subgraph_lines(g, names, k) ==
    LET in_lane(n) == has_actor(n) /\ n.actor.val = names[k]
        lane == SelectSeq(g.nodes, in_lane)
    IN  <<indent4 \o <<"s", "u", "b", "g", "r", "a", "p", "h", " ", "s", "g", "_">>
            \o Dec(k) \o <<" ", "[", "\"">> \o safe(names[k]) \o <<"\"", "]">>>>
        \o [j \in DOMAIN lane |-> indent4 \o indent4 \o node_str(lane[j])]
        \o <<indent4 \o <<"e", "n", "d">>>>

\* the line of an edge
edge_line(e) ==
    IF e.label # <<>>
    THEN indent4 \o e.src \o <<" ">> \o e.style \o <<"|">> \o e.label \o <<"|", " ">> \o e.dst
    ELSE indent4 \o e.src \o <<" ">> \o e.style \o <<" ">> \o e.dst

\* the lines of GraphStructure.to_mermaid
to_mermaid_lines(g) ==
    LET names == actor_names(g.nodes, <<>>)
        no_actor(n) == ~has_actor(n)
        no_actor_nodes == SelectSeq(g.nodes, no_actor)
    IN  <<<<"g", "r", "a", "p", "h", " ">> \o g.direction>>
        \o concat([k \in DOMAIN names |-> subgraph_lines(g, names, k)])
        \o [j \in DOMAIN no_actor_nodes |-> indent4 \o node_str(no_actor_nodes[j])]
        \o [j \in DOMAIN g.edges |-> edge_line(g.edges[j])]

\* GraphStructure.to_mermaid
to_mermaid(g) == join_lines(to_mermaid_lines(g))

\* agent/another_core.py GraphStructure._node_str: the label as it is
agent_node_str(node) ==
    node.id \o brackets(node.shape)[1] \o node.label \o brackets(node.shape)[2]

\* agent/another_core.py GraphStructure.to_mermaid, whose nodes have no actor
agent_to_mermaid(g) ==
    join_lines(<<<<"g", "r", "a", "p", "h", " ">> \o g.direction>>
               \o [j \in DOMAIN g.nodes |-> indent4 \o agent_node_str(g.nodes[j])]
               \o [j \in DOMAIN g.edges |-> edge_line(g.edges[j])])

-----------------------------------------------------------------------------
(* draft_refine/mermaid.py MermaidParser. What a parse has built so far is    *)
(* [graph, fallback_events, log]: log is a ghost, one <<way, text>> for every *)
(* call of _parse_node_ref, way being the branch that resolved the text.      *)

\* SHAPE_PATTERNS: the opening and the closing bracket, and the shape
SHAPE_PATTERNS ==
    <<[open |-> <<"(", "[">>, close |-> <<"]", ")">>, shape |-> "stadium"],
      [open |-> <<"(", "(">>, close |-> <<")", ")">>, shape |-> "circle"],
      [open |-> <<"{", "{">>, close |-> <<"}", "}">>, shape |-> "hex"],
      [open |-> <<"{">>, close |-> <<"}">>, shape |-> "diamond"],
      [open |-> <<"[">>, close |-> <<"]">>, shape |-> "rect"],
      [open |-> <<"(">>, close |-> <<")">>, shape |-> "round"]>>

\* ARROW_PATTERNS: every pattern is the text of its style
ARROW_PATTERNS ==
    <<<<"-", ".", "-", ">">>, <<"=", "=", "=">>, <<"=", "=", ">">>,
      <<"-", "-", ">">>, <<"-", "-", "-">>>>

\* (?:.|\\n)
Inner == Alt(<<Dot, Lit(<<"\\", "n">>)>>)

\* ^([A-Za-z_]\w*)\s*<open>((?:.|\\n)+?)<close>$
declaration(p) ==
    Cat(<<Group(1, Ident), Star(Sp), Lit(p.open), Group(2, LazyPlus(Inner)),
          Lit(p.close), AtEnd>>)

\* the least k with P(k), 0 if there is none
first_of(S) == IF S = {} THEN 0 ELSE CHOOSE k \in S : \A j \in S : k <= j

quoted(x, q) == x # <<>> /\ x[1] = q /\ x[Len(x)] = q

\* "label" -> label, 'label' -> label
unquote(x) ==
    IF quoted(x, "\"") \/ quoted(x, "'") THEN SubSeq(x, 2, Len(x) - 1) ELSE x

\* mutant: a repeated id takes the new label and shape
put_node_over(g, n) ==
    IF n.id \in node_ids(g)
    THEN [g EXCEPT !.nodes = [k \in DOMAIN @ |-> IF @[k].id = n.id THEN n ELSE @[k]]]
    ELSE [g EXCEPT !.nodes = Append(@, n)]

\* "if nid not in graph.nodes: graph.nodes[nid] = Node(...)"
put_node(g, n) ==
    IF n.id \in node_ids(g) THEN g ELSE [g EXCEPT !.nodes = Append(@, n)]

\* what _parse_node_ref leaves and returns
resolved(st, way, text, n) ==
    [id |-> n.id,
     st |-> [st EXCEPT !.graph = put_node(@, n), !.log = Append(@, <<way, text>>)]]

\* ^([A-Za-z_]\w*)\s*(\(\[|\(\(|\{\{|\{|\[|\()((?:.|\\n)*)
heuristic ==
    Cat(<<Group(1, Ident), Star(Sp),
          Group(2, Alt(<<Lit(<<"(", "[">>), Lit(<<"(", "(">>), Lit(<<"{", "{">>),
                         Lit(<<"{">>), Lit(<<"[">>), Lit(<<"(">>)>>)),
          Group(3, Star(Inner))>>)

\* re.sub(r'(\]\)|\]|\)\)|\}|\}\})$', '', x)
without_closing(x) ==
    With(re_search(Cat(<<Alt(<<Lit(<<"]", ")">>), Lit(<<"]">>), Lit(<<")", ")">>),
                             Lit(<<"}">>), Lit(<<"}", "}">>)>>), AtEnd>>), x),
         LAMBDA m : IF m.ok THEN upto(x, m.start) ELSE x)

\* shape_map.get(bracket, "rect")
shape_map(bracket) ==
    CASE bracket = <<"(", "[">> -> "stadium"
      [] bracket = <<"(", "(">> -> "circle"
      [] bracket = <<"{", "{">> -> "hex"
      [] bracket = <<"{">> -> "diamond"
      [] bracket = <<"(">> -> "round"
      [] OTHER -> "rect"

\* re.sub(r'[^A-Za-z0-9_]', '_', text)[:20], with "N_" in front of an empty
\* id and of a leading digit
safe_id(text) ==
    LET word_only == [k \in DOMAIN text |->
                     IF text[k] \in Letters \cup Digits \cup {"_"} THEN text[k] ELSE "_"]
        cut == upto(word_only, IF Len(word_only) < 20 THEN Len(word_only) ELSE 20)
    IN  IF cut = <<>> \/ cut[1] \in Digits THEN <<"N", "_">> \o cut ELSE cut

\* the first pattern of the list that matches the text, from the k-th on, and
\* its match; [k |-> 0] if none does
first_pattern(patterns, text, k) ==
    With({<<j, re_match(patterns[j], text)>> : j \in k..Len(patterns)}, LAMBDA tries :
        IF \A t \in tries : ~t[2].ok THEN [k |-> 0, m |-> NoMatch]
        ELSE LET first == CHOOSE t \in tries :
                            t[2].ok /\ \A u \in tries : u[2].ok => t[1] <= u[1]
             IN  [k |-> first[1], m |-> first[2]])

\* the node of a text that a pattern of SHAPE_PATTERNS matches, the label
\* unquoted or as it is
declared_node(text, found, label_of(_)) ==
    NodeEntry(group(text, found.m, 1), label_of(strip(group(text, found.m, 2))),
              SHAPE_PATTERNS[found.k].shape, None)

\* the first of SHAPE_PATTERNS that matches the text as a declaration
strict_match(text) ==
    first_pattern([k \in DOMAIN SHAPE_PATTERNS |-> declaration(SHAPE_PATTERNS[k])],
                  text, 1)

\* branches 2 to 4 of _parse_node_ref
loose_node_ref(text, st) ==
    With(re_match(heuristic, text), LAMBDA loose :
        IF loose.ok
        THEN resolved(st, "heuristic", text,
                NodeEntry(group(text, loose, 1),
                          unquote(without_closing(strip(group(text, loose, 3)))),
                          shape_map(group(text, loose, 2)), None))
        ELSE With(re_match(Cat(<<Group(1, Ident), AtEnd>>), strip(text)), LAMBDA bare :
            IF bare.ok
            THEN resolved(st, "id", text,
                    NodeEntry(group(strip(text), bare, 1), group(strip(text), bare, 1),
                              "rect", None))
            ELSE With(re_match(Cat(<<Group(1, Ident), Star(Sp), Lit(<<"-", "-">>)>>), text),
            LAMBDA stub :
                IF stub.ok
                THEN resolved(st, "stub", text,
                        NodeEntry(group(text, stub, 1), group(text, stub, 1), "rect", None))
                ELSE [resolved(st, "fallback", text,
                               NodeEntry(safe_id(text), text, "rect", None))
                        EXCEPT !.st.fallback_events = Append(@, text)])))

\* MermaidParser._parse_node_ref
parse_node_ref(text, st) ==
    With(strict_match(text), LAMBDA strict :
        IF strict.k # 0
        THEN resolved(st, "strict", text, declared_node(text, strict, unquote))
        ELSE loose_node_ref(text, st))

\* MermaidParser._try_parse_standalone_node
try_parse_standalone_node(text, st) ==
    With(strict_match(text), LAMBDA strict :
        IF strict.k # 0
        THEN [st EXCEPT !.graph = put_node(@, declared_node(text, strict, LAMBDA x : x))]
        ELSE st)

\* what the three branches of _try_parse_edge add once a line has matched:
\* the source and the target are resolved in this order, then the edge is put
with_edge(st, src_text, dst_text, label, style) ==
    With(parse_node_ref(src_text, st), LAMBDA src :
        With(parse_node_ref(dst_text, src.st), LAMBDA dst :
            [dst.st EXCEPT
                !.graph.edges = Append(@, EdgeEntry(src.id, dst.id, label, style))]))

\* INLINE_LABEL_PATTERNS: ^(.+?)\s+--\s+(.+?)\s+<arrow>\s+(.+)$, the dotted
\* arrow being -\.->+
INLINE_LABEL_PATTERNS ==
    LET inline(arrow_re) ==
            Cat(<<Group(1, LazyPlus(Dot)), Plus(Sp), Lit(<<"-", "-">>), Plus(Sp),
                  Group(2, LazyPlus(Dot)), Plus(Sp), arrow_re, Plus(Sp),
                  Group(3, Plus(Dot)), AtEnd>>)
    IN  <<[re |-> inline(Lit(<<"-", "-", ">">>)), style |-> <<"-", "-", ">">>],
          [re |-> inline(Lit(<<"-", "-", "-">>)), style |-> <<"-", "-", "-">>],
          [re |-> inline(Cat(<<Lit(<<"-", ".", "-">>), Plus(OneOf({">"}))>>)),
           style |-> <<"-", ".", "-", ">">>],
          [re |-> inline(Lit(<<"=", "=", ">">>)), style |-> <<"=", "=", ">">>]>>

\* ^(.+?)\s*<arrow>\s*\|(.+?)\|\s*(.+)$
piped(style) ==
    Cat(<<Group(1, LazyPlus(Dot)), Star(Sp), Lit(style), Star(Sp), Lit(<<"|">>),
          Group(2, LazyPlus(Dot)), Lit(<<"|">>), Star(Sp), Group(3, Plus(Dot)), AtEnd>>)

\* ^(.+?)\s*<arrow>\s*(.+)$
unlabelled(style) ==
    Cat(<<Group(1, LazyPlus(Dot)), Star(Sp), Lit(style), Star(Sp),
          Group(2, Plus(Dot)), AtEnd>>)

\* MermaidParser._contains_arrow
contains_arrow(text) ==
    \E k \in DOMAIN ARROW_PATTERNS : re_search(Lit(ARROW_PATTERNS[k]), text).ok

\* \s*<arrow>\s*
separator(style) == Cat(<<Star(Sp), Lit(style), Star(Sp)>>)

\* the loop of _parse_chained_edges that cuts the line at its arrows: in every
\* turn the first of ARROW_PATTERNS found anywhere in what remains is taken
RECURSIVE split_chain(_, _, _)
split_chain(remaining, parts, arrows) ==
    IF remaining = <<>> THEN [parts |-> parts, arrows |-> arrows]
    ELSE With(first_of({j \in DOMAIN ARROW_PATTERNS :
                           re_search(separator(ARROW_PATTERNS[j]), remaining).ok}),
         LAMBDA k :
            IF k = 0
            THEN [parts |-> IF strip(remaining) # <<>>
                            THEN Append(parts, strip(remaining)) ELSE parts,
                  arrows |-> arrows]
            ELSE With(re_search(separator(ARROW_PATTERNS[k]), remaining), LAMBDA m :
                    With(strip(upto(remaining, m.start)), LAMBDA part :
                        split_chain(from_on(remaining, m.end),
                            IF part # <<>> THEN Append(parts, part) ELSE parts,
                            IF part # <<>> THEN Append(arrows, ARROW_PATTERNS[k])
                            ELSE arrows))))

\* "node_ids = [cls._parse_node_ref(p, graph, fallback_events) for p in parts]"
RECURSIVE resolve_parts(_, _, _)
resolve_parts(parts, ids, st) ==
    IF Len(parts) = 0 THEN [ids |-> ids, st |-> st]
    ELSE With(parse_node_ref(Head(parts), st), LAMBDA ref :
            resolve_parts(Tail(parts), Append(ids, ref.id), ref.st))

\* MermaidParser._parse_chained_edges
parse_chained_edges(text, st) ==
    With(split_chain(text, <<>>, <<>>), LAMBDA cut :
        IF Len(cut.parts) < 2 THEN [ok |-> FALSE, st |-> st]
        ELSE With(resolve_parts(cut.parts, <<>>, st), LAMBDA refs :
                [ok |-> TRUE,
                 st |-> [refs.st EXCEPT !.graph.edges = @ \o
                            [i \in 1..(Len(refs.ids) - 1) |->
                                EdgeEntry(refs.ids[i], refs.ids[i + 1], <<>>,
                                          IF i <= Len(cut.arrows) THEN cut.arrows[i]
                                          ELSE Arrow)]]]))

\* what a line that matched gives: the texts of the two ends, the label and
\* the style
matched_as(syntax, text, m, label_group, dst_group, style) ==
    [syntax |-> syntax,
     src |-> strip(group(text, m, 1)),
     dst |-> strip(group(text, m, dst_group)),
     label |-> IF label_group = 0 THEN <<>> ELSE strip(group(text, m, label_group)),
     style |-> style]

\* the three syntaxes of _try_parse_edge in the order they are tried: the
\* inline label, the pipe label, the arrow without label
edge_syntax(text) ==
    With(first_pattern([k \in DOMAIN INLINE_LABEL_PATTERNS |->
                           INLINE_LABEL_PATTERNS[k].re], text, 1),
    LAMBDA inline :
        IF inline.k # 0
        THEN matched_as("inline", text, inline.m, 2, 3,
                        INLINE_LABEL_PATTERNS[inline.k].style)
        ELSE With(first_pattern([k \in DOMAIN ARROW_PATTERNS |->
                                    piped(ARROW_PATTERNS[k])], text, 1),
        LAMBDA pipe :
            IF pipe.k # 0
            THEN matched_as("pipe", text, pipe.m, 2, 3, ARROW_PATTERNS[pipe.k])
            ELSE With(first_pattern([k \in DOMAIN ARROW_PATTERNS |->
                                        unlabelled(ARROW_PATTERNS[k])], text, 1),
            LAMBDA plain :
                IF plain.k # 0
                THEN matched_as("plain", text, plain.m, 0, 2, ARROW_PATTERNS[plain.k])
                ELSE [syntax |-> "none", src |-> <<>>, dst |-> <<>>, label |-> <<>>,
                      style |-> <<>>])))

\* MermaidParser._try_parse_edge
try_parse_edge(text, st) ==
    With(edge_syntax(text), LAMBDA found :
        IF found.syntax = "none" THEN [ok |-> FALSE, st |-> st]
        ELSE IF found.syntax = "plain"
                /\ (contains_arrow(found.src) \/ contains_arrow(found.dst))
        THEN parse_chained_edges(text, st)
        ELSE [ok |-> TRUE,
              st |-> with_edge(st, found.src, found.dst, found.label, found.style)])

\* the arrows rule 5 of _preprocess_line must not see ahead
AnyArrow ==
    Alt(<<Lit(<<"-", "-", ">">>), Lit(<<"-", "-", "-">>), Lit(<<"-", ".", "-", ">">>),
          Lit(<<"=", "=", ">">>), Lit(<<"=", "=", "=">>)>>)

\* re.sub(r, ' <arrow>|\1|' + tail, text): every match, from left to right
RECURSIVE sub_pipe(_, _, _, _)
sub_pipe(r, style, tail, text) ==
    With(text, LAMBDA t :
        With(re_search(r, t), LAMBDA m :
            IF ~m.ok THEN t
            ELSE upto(t, m.start) \o <<" ">> \o style \o <<"|">> \o group(t, m, 1)
                    \o <<"|">> \o tail \o sub_pipe(r, style, tail, from_on(t, m.end))))

\* \s*--\|(.+?)\|\s*<arrow>
stub_then(style) ==
    Cat(<<Star(Sp), Lit(<<"-", "-", "|">>), Group(1, LazyPlus(Dot)), Lit(<<"|">>),
          Star(Sp), Lit(style)>>)

\* \s*--\|(.+?)\|\s+(?!-->|---|-\.->|==>|===)
stub_alone ==
    Cat(<<Star(Sp), Lit(<<"-", "-", "|">>), Group(1, LazyPlus(Dot)), Lit(<<"|">>),
          Plus(Sp), NotAhead(AnyArrow)>>)

\* mutant: the stub that no arrow follows is left as it is
preprocess_line_with_arrows_only(text) ==
    sub_pipe(stub_then(<<"=", "=", ">">>), <<"=", "=", ">">>, <<>>,
        sub_pipe(stub_then(<<"-", ".", "-", ">">>), <<"-", ".", "-", ">">>, <<>>,
            sub_pipe(stub_then(<<"-", "-", "-">>), <<"-", "-", "-">>, <<>>,
                sub_pipe(stub_then(<<"-", "-", ">">>), <<"-", "-", ">">>, <<>>, text))))

\* MermaidParser._preprocess_line
preprocess_line(text) ==
    sub_pipe(stub_alone, <<"-", "-", "-">>, <<" ">>,
        sub_pipe(stub_then(<<"=", "=", ">">>), <<"=", "=", ">">>, <<>>,
            sub_pipe(stub_then(<<"-", ".", "-", ">">>), <<"-", ".", "-", ">">>, <<>>,
                sub_pipe(stub_then(<<"-", "-", "-">>), <<"-", "-", "-">>, <<>>,
                    sub_pipe(stub_then(<<"-", "-", ">">>), <<"-", "-", ">">>, <<>>, text)))))

\* x.startswith(p)
startswith(x, p) == IsPrefix(p, x)

\* str.strip() of a text of several lines
RECURSIVE strip_text(_)
strip_text(text) ==
    IF text # <<>> /\ Head(text) \in {" ", "\n"} THEN strip_text(Tail(text))
    ELSE IF text # <<>> /\ text[Len(text)] \in {" ", "\n"}
    THEN strip_text(upto(text, Len(text) - 1))
    ELSE text

\* str.splitlines()
splitlines(text) ==
    LET breaks == {j \in DOMAIN text : text[j] = "\n"}
        break(n) == CHOOSE j \in breaks : Cardinality({b \in breaks : b <= j}) = n
        unbroken == IF text # <<>> /\ text[Len(text)] # "\n" THEN 1 ELSE 0
    IN  [n \in 1..(Cardinality(breaks) + unbroken) |->
            SubSeq(text, IF n = 1 THEN 1 ELSE break(n - 1) + 1,
                         IF n <= Cardinality(breaks) THEN break(n) - 1 ELSE Len(text))]

\* ^<keyword>\s+(TD|TB|LR|RL|BT)
direction_of(keyword) ==
    Cat(<<Lit(keyword), Plus(Sp),
          Group(1, Alt(<<Lit(<<"T", "D">>), Lit(<<"T", "B">>), Lit(<<"L", "R">>),
                         Lit(<<"R", "L">>), Lit(<<"B", "T">>)>>))>>)

kw_graph == <<"g", "r", "a", "p", "h">>

kw_flowchart == <<"f", "l", "o", "w", "c", "h", "a", "r", "t">>

\* the line has a direction: "graph TD", "flowchart LR"
is_header(stripped) ==
    \/ re_match(direction_of(kw_graph), stripped).ok
    \/ re_match(direction_of(kw_flowchart), stripped).ok

\* the direction the line gives
header_direction(stripped) ==
    IF re_match(direction_of(kw_graph), stripped).ok
    THEN group(stripped, re_match(direction_of(kw_graph), stripped), 1)
    ELSE group(stripped, re_match(direction_of(kw_flowchart), stripped), 1)

\* empty lines and comments are skipped before the header is looked for
is_blank(stripped) == stripped = <<>> \/ startswith(stripped, <<"%", "%">>)

\* style, classDef, subgraph and end are skipped after it
is_skipped(stripped) ==
    \/ startswith(stripped, <<"s", "t", "y", "l", "e", " ">>)
    \/ startswith(stripped, <<"c", "l", "a", "s", "s", "D", "e", "f", " ">>)
    \/ startswith(stripped, <<"s", "u", "b", "g", "r", "a", "p", "h", " ">>)
    \/ stripped = <<"e", "n", "d">>

\* "lines = code.strip().splitlines()"
lines_of(text) == splitlines(strip_text(text))

\* "stripped = cls._preprocess_line(line.strip())" of the line that is next
next_line == preprocess_line(strip(lines_of(code)[line_no + 1]))

\* what the parse has built
built == [graph |-> parsed, fallback_events |-> fallback_events, log |-> parse_log]

-----------------------------------------------------------------------------
(* Inputs of to_mermaid and of MermaidParser.parse *)

\* most edges of a graph that is made into text
MaxTextEdges == 1

\* edges from A to B of any style, labelled or not, and an edge back
TextEdges ==
    {EdgeEntry(id_A, id_B, l, st) : l \in {<<>>, label_x}, st \in StyleTexts}
    \cup {EdgeEntry(id_B, id_A, <<>>, Arrow)}

\* graphs with unique ids and labels that need no escape
TextDiagrams ==
    {Diagram(TD, ns, <<>>) : ns \in {<<>>} \cup LoneNodes}
    \cup {Diagram(TD, ns, es) : ns \in PairNodes, es \in SeqsUpTo(TextEdges, MaxTextEdges)}

\* a chain of references joined by arrows, with or without blanks around them
chain_text(refs, arrows, blank) ==
    refs[1] \o concat([k \in DOMAIN arrows |-> blank \o arrows[k] \o blank \o refs[k + 1]])

\* most arrows of a chain
MaxArrows == 2

ChainRefs == <<id_A, id_B, id_C, id_A>>

\* the chains A-->B, A-->B-->C, ... of every mix of styles
Chains ==
    {[refs |-> upto(ChainRefs, Len(arrows) + 1), arrows |-> arrows, blank |-> b] :
        arrows \in SeqsUpTo(StyleTexts, MaxArrows) \ {<<>>}, b \in {<<>>, <<" ">>}}

ChainTexts == {chain_text(c.refs, c.arrows, c.blank) : c \in Chains}

\* texts that no GraphStructure was made into
RawTexts ==
    \* a label and a shape given again for ids already seen, in references and in declarations: 'A[x] --> B\nA{y} --> B(z)\nA((w))'
    {<<"A", "[", "x", "]", " ", "-", "-", ">", " ", "B", "\n", "A", "{", "y", "}", " ", "-", "-", ">", " ", "B", "(", "z", ")", "\n", "A", "(", "(", "w", ")", ")">>}
    \cup
    \* a label and a shape given again for ids already seen, in references and in declarations: 'A --> B\nA[x]\nB{y} --> A'
    {<<"A", " ", "-", "-", ">", " ", "B", "\n", "A", "[", "x", "]", "\n", "B", "{", "y", "}", " ", "-", "-", ">", " ", "A">>}
    \cup
    \* a label and a shape given again for ids already seen, in references and in declarations: 'A[x]\nA(y)\nA --> A{z}'
    {<<"A", "[", "x", "]", "\n", "A", "(", "y", ")", "\n", "A", " ", "-", "-", ">", " ", "A", "{", "z", "}">>}
    \cup
    \* malformed pipe labels after a two-dash stub: 'D --|need approval| E'
    {<<"D", " ", "-", "-", "|", "n", "e", "e", "d", " ", "a", "p", "p", "r", "o", "v", "a", "l", "|", " ", "E">>}
    \cup
    \* malformed pipe labels after a two-dash stub: 'D --|Yes| --> E'
    {<<"D", " ", "-", "-", "|", "Y", "e", "s", "|", " ", "-", "-", ">", " ", "E">>}
    \cup
    \* malformed pipe labels after a two-dash stub: 'D --|no| E --|so| F'
    {<<"D", " ", "-", "-", "|", "n", "o", "|", " ", "E", " ", "-", "-", "|", "s", "o", "|", " ", "F">>}
    \cup
    \* inline labels: 'A -- yes --> B'
    {<<"A", " ", "-", "-", " ", "y", "e", "s", " ", "-", "-", ">", " ", "B">>}
    \cup
    \* inline labels: 'A -- no --- B'
    {<<"A", " ", "-", "-", " ", "n", "o", " ", "-", "-", "-", " ", "B">>}
    \cup
    \* references with a missing closing bracket, and text that is no reference: 'A --> B[x'
    {<<"A", " ", "-", "-", ">", " ", "B", "[", "x">>}
    \cup
    \* references with a missing closing bracket, and text that is no reference: 'A --> B((x)'
    {<<"A", " ", "-", "-", ">", " ", "B", "(", "(", "x", ")">>}
    \cup
    \* references with a missing closing bracket, and text that is no reference: 'R[abc'
    {<<"R", "[", "a", "b", "c">>}
    \cup
    \* references with a missing closing bracket, and text that is no reference: 'A --> B c'
    {<<"A", " ", "-", "-", ">", " ", "B", " ", "c">>}
    \cup
    \* references with a missing closing bracket, and text that is no reference: '1x --> B'
    {<<"1", "x", " ", "-", "-", ">", " ", "B">>}
    \cup
    \* references with a missing closing bracket, and text that is no reference: 'A --> B[x]\nB[x --> C'
    {<<"A", " ", "-", "-", ">", " ", "B", "[", "x", "]", "\n", "B", "[", "x", " ", "-", "-", ">", " ", "C">>}
    \cup
    \* lines that are skipped: 'flowchart LR\n%% note\n\nstyle A fill\nclassDef big\nA[x]'
    {<<"f", "l", "o", "w", "c", "h", "a", "r", "t", " ", "L", "R", "\n", "%", "%", " ", "n", "o", "t", "e", "\n", "\n", "s", "t", "y", "l", "e", " ", "A", " ", "f", "i", "l", "l", "\n", "c", "l", "a", "s", "s", "D", "e", "f", " ", "b", "i", "g", "\n", "A", "[", "x", "]">>}
    \cup
    \* lines that are skipped: 'graph LR\nend'
    {<<"g", "r", "a", "p", "h", " ", "L", "R", "\n", "e", "n", "d">>}

-----------------------------------------------------------------------------
(* Specification of the text of a graph: GraphStructure.to_mermaid makes the  *)
(* text, MermaidParser.parse reads a text line by line                        *)

\* code = graph.to_mermaid()
ToMermaid ==
    /\ pc = "serialize"
    /\ code' = to_mermaid(graph)
    /\ pc' = "parse"
    /\ UNCHANGED <<engine_vars, graph, diff_vars, line_no, parsed, fallback_events,
                   parse_log, merge_vars>>

\* code = graph.to_mermaid() of the agent's GraphStructure
AgentToMermaid ==
    /\ pc = "serialize"
    /\ \A k \in DOMAIN graph.nodes : ~graph.nodes[k].actor.some
    /\ code' = agent_to_mermaid(graph)
    /\ pc' = "agent_text"
    /\ UNCHANGED <<engine_vars, graph, diff_vars, line_no, parsed, fallback_events,
                   parse_log, merge_vars>>

\* the loop of parse has a line left
HasLine == pc = "parse" /\ line_no < Len(lines_of(code))

\* an empty line, a comment, a style, classDef, subgraph or end line
SkipLine ==
    /\ HasLine
    /\ is_blank(next_line) \/ (~is_header(next_line) /\ is_skipped(next_line))
    /\ line_no' = line_no + 1
    /\ UNCHANGED <<engine_vars, graph, diff_vars, code, parsed, fallback_events,
                   parse_log, merge_vars, pc>>

\* "graph TD", "flowchart LR"
HeaderLine ==
    /\ HasLine
    /\ ~is_blank(next_line) /\ is_header(next_line)
    /\ parsed' = [parsed EXCEPT !.direction = header_direction(next_line)]
    /\ line_no' = line_no + 1
    /\ UNCHANGED <<engine_vars, graph, diff_vars, code, fallback_events,
                   parse_log, merge_vars, pc>>

\* the line goes to _try_parse_edge
IsContent == ~is_blank(next_line) /\ ~is_header(next_line) /\ ~is_skipped(next_line)

\* _try_parse_edge takes the line
EdgeLine ==
    /\ HasLine /\ IsContent
    /\ \E edge_parsed \in {try_parse_edge(next_line, built)} :
           /\ edge_parsed.ok
           /\ parsed' = edge_parsed.st.graph
           /\ fallback_events' = edge_parsed.st.fallback_events
           /\ parse_log' = edge_parsed.st.log
    /\ line_no' = line_no + 1
    /\ UNCHANGED <<engine_vars, graph, diff_vars, code, merge_vars, pc>>

\* _try_parse_edge leaves the line to _try_parse_standalone_node
NodeLine ==
    /\ HasLine /\ IsContent
    /\ ~try_parse_edge(next_line, built).ok
    /\ parsed' = try_parse_standalone_node(next_line, built).graph
    /\ line_no' = line_no + 1
    /\ UNCHANGED <<engine_vars, graph, diff_vars, code, fallback_events,
                   parse_log, merge_vars, pc>>

\* "return graph"
ParseReturn ==
    /\ pc = "parse" /\ line_no = Len(lines_of(code))
    /\ pc' = "parsed"
    /\ UNCHANGED <<engine_vars, graph, diff_vars, text_vars, merge_vars>>

InitText ==
    /\ IdleEngine /\ IdleDiff /\ IdleMerge
    /\ \/ pc = "serialize" /\ graph \in TextDiagrams /\ code = <<>>
       \/ pc = "parse" /\ graph = EmptyDiagram /\ code \in RawTexts \cup ChainTexts
    /\ line_no = 0
    /\ parsed = EmptyDiagram
    /\ fallback_events = <<>>
    /\ parse_log = <<>>

NextText ==
    \/ ToMermaid
    \/ AgentToMermaid
    \/ SkipLine
    \/ HeaderLine
    \/ EdgeLine
    \/ NodeLine
    \/ ParseReturn

SpecText == InitText /\ [][NextText]_vars

-----------------------------------------------------------------------------
(* agent/another_corev3.py: the agent that merges three drafts. A dict is the *)
(* list of its <<key, value>> items in the order of insertion; the nodes of a *)
(* graph are the list of the values of its dict.                              *)

AgentNode(id, label, shape) == [id |-> id, label |-> label, shape |-> shape]

AgentEdge(src, dst, label, style) ==
    [src |-> src, dst |-> dst, label |-> label, style |-> style]

AgentGraph(ns, es) == [direction |-> "TD", nodes |-> ns, edges |-> es]

\* the keys of perspectives, in the order the tasks are submitted
perspectives == <<"Structuralist", "Optimist", "Pessimist">>

\* priority of _merge_union
priority == <<"Structuralist", "Optimist", "Pessimist">>

\* "key in dct"
has_key(dct, key) == \E k \in DOMAIN dct : dct[k][1] = key

\* dct[key]
value_of(dct, key) == dct[CHOOSE k \in DOMAIN dct : dct[k][1] = key][2]

\* "new_nodes[n.id] = n": a key that is there keeps its place
RECURSIVE set_nodes(_, _)
set_nodes(ns, incoming) ==
    IF Len(incoming) = 0 THEN ns
    ELSE LET n == Head(incoming)
         IN  set_nodes(IF n.id \in node_ids([nodes |-> ns])
                       THEN [k \in DOMAIN ns |-> IF ns[k].id = n.id THEN n ELSE ns[k]]
                       ELSE Append(ns, n),
                       Tail(incoming))

\* the graph _normalize_ids makes of a draft that is not the anchor
remapped(g, mapping) ==
    LET new_id(nid) == IF nid \in DOMAIN mapping THEN mapping[nid] ELSE nid
        id_map(x) == IF x \in node_ids(g) THEN new_id(x) ELSE x
    IN  AgentGraph(
            set_nodes(<<>>, [k \in DOMAIN g.nodes |->
                               AgentNode(new_id(g.nodes[k].id), g.nodes[k].label,
                                         g.nodes[k].shape)]),
            [k \in DOMAIN g.edges |->
                AgentEdge(id_map(g.edges[k].src), id_map(g.edges[k].dst),
                          g.edges[k].label, g.edges[k].style)])

\* GraphSightAgent._normalize_ids, the answers to the mapping prompts given
normalize_ids(dct, mappings) ==
    LET rest == SelectSeq(dct, LAMBDA item : item[1] # "Structuralist")
    IN  IF ~has_key(dct, "Structuralist") THEN dct
        ELSE <<<<"Structuralist", value_of(dct, "Structuralist")>>>>
             \o [k \in DOMAIN rest |->
                    <<rest[k][1], remapped(rest[k][2], mappings[rest[k][1]])>>]

\* mutant: the drafts in the order of the dict
in_order_of_dict(dct) == [k \in DOMAIN dct |-> dct[k][2]]

\* "for name in priority: if name not in drafts: continue"
in_priority(dct) ==
    LET named == SelectSeq(priority, LAMBDA name : has_key(dct, name))
    IN  [k \in DOMAIN named |-> value_of(dct, named[k])]

\* mutant: a node that comes later takes the place of the one stored
merge_nodes_last_wins(ns, incoming) == set_nodes(ns, incoming)

\* "if nid not in final.nodes: final.nodes[nid] = node"
RECURSIVE merge_nodes(_, _)
merge_nodes(ns, incoming) ==
    IF Len(incoming) = 0 THEN ns
    ELSE merge_nodes(IF Head(incoming).id \in node_ids([nodes |-> ns]) THEN ns
                     ELSE Append(ns, Head(incoming)),
                     Tail(incoming))

\* the second loop of _merge_union: an edge whose pair is new is put, with a
\* dummy node for an endpoint that is missing
RECURSIVE merge_edges(_, _)
merge_edges(g, incoming) ==
    IF Len(incoming) = 0 THEN g
    ELSE LET e == Head(incoming)
         IN  merge_edges(
                IF <<e.src, e.dst>> \in edge_set(g) THEN g
                ELSE [g EXCEPT
                        !.nodes = merge_nodes(@, <<AgentNode(e.src, e.src, "rect"),
                                                   AgentNode(e.dst, e.dst, "rect")>>),
                        !.edges = Append(@, e)],
                Tail(incoming))

\* GraphSightAgent._merge_union
merge_union(dct) ==
    LET by_rank == in_priority(dct)
        all_nodes == concat([k \in DOMAIN by_rank |-> by_rank[k].nodes])
        all_edges == concat([k \in DOMAIN by_rank |-> by_rank[k].edges])
    IN  merge_edges(AgentGraph(merge_nodes(<<>>, all_nodes), <<>>), all_edges)

-----------------------------------------------------------------------------
(* Inputs: what the model answers *)

\* the graphs a perspective may read from the image; the tag of the perspective
\* is the label of its nodes and edges
DraftsOf(tag, shape, style) ==
    {AgentGraph(<<>>, <<>>),
     AgentGraph(<<AgentNode("A", tag, shape), AgentNode("B", tag, shape)>>,
                <<AgentEdge("A", "B", tag, style)>>),
     AgentGraph(<<AgentNode("B", tag, shape), AgentNode("C", tag, shape)>>,
                <<AgentEdge("B", "C", tag, style), AgentEdge("C", "B", tag, style)>>),
     AgentGraph(<<AgentNode("C", tag, shape), AgentNode("A", tag, shape)>>,
                <<AgentEdge("C", "A", tag, style), AgentEdge("C", "A", "again", style)>>)}

\* the answers to "Map IDs from List B to List A": none, or one id renamed
Mappings(dom, rng) == {[x \in {} |-> "A"]} \cup {[x \in {dom} |-> rng]}

\* the model's answers: the draft of each perspective, whether its call raises,
\* and the mapping for each draft that is not the anchor
Answers ==
    {[draft |-> [name \in Range(perspectives) |->
                    CASE name = "Structuralist" -> s
                      [] name = "Optimist" -> o
                      [] OTHER -> p],
      raises |-> [name \in Range(perspectives) |-> name \in failing],
      mapping |-> [name \in Range(perspectives) |->
                    CASE name = "Optimist" -> mo
                      [] name = "Pessimist" -> mp
                      [] OTHER -> [x \in {} |-> "A"]]] :
        s \in DraftsOf("s", "rect", "-->"),
        o \in DraftsOf("o", "round", "-.->"),
        p \in DraftsOf("p", "diamond", "==>"),
        failing \in {{}, {"Optimist"}},
        mo \in Mappings("C", "A"),
        mp \in Mappings("B", "A")}

-----------------------------------------------------------------------------
(* Specification of GraphSightAgent.run: the draft tasks on the pool of three *)
(* workers, then _normalize_ids and _merge_union in the caller's thread       *)

Future(name) == [name |-> name, state |-> "pending", value |-> AgentGraph(<<>>, <<>>)]

\* "ex.submit(_run, n, p)", in the order of perspectives
Submit ==
    /\ pc = "submit"
    /\ futures' = Append(futures, Future(perspectives[Len(futures) + 1]))
    /\ pc' = IF Len(futures') = Len(perspectives) THEN "collect" ELSE "submit"
    /\ UNCHANGED <<engine_vars, graph, diff_vars, text_vars, drafts, results, final, llm>>

\* a worker of the pool takes a task
WorkerStart(k) ==
    /\ futures[k].state = "pending"
    /\ futures' = [futures EXCEPT ![k].state = "running"]
    /\ UNCHANGED <<engine_vars, graph, diff_vars, text_vars, drafts, results, final, llm, pc>>

\* "return name, MermaidParser.parse(mermaid)"
WorkerReturn(k) ==
    /\ futures[k].state = "running"
    /\ ~llm.raises[futures[k].name]
    /\ futures' = [futures EXCEPT ![k].state = "finished",
                                  ![k].value = llm.draft[futures[k].name]]
    /\ UNCHANGED <<engine_vars, graph, diff_vars, text_vars, drafts, results, final, llm, pc>>

\* "except Exception: return name, GraphStructure()"
WorkerFails(k) ==
    /\ futures[k].state = "running"
    /\ llm.raises[futures[k].name]
    /\ futures' = [futures EXCEPT ![k].state = "finished"]
    /\ UNCHANGED <<engine_vars, graph, diff_vars, text_vars, drafts, results, final, llm, pc>>

\* a turn of "for f in as_completed(futures)": "if g.nodes: results[n] = g"
Collect(k) ==
    /\ pc = "collect"
    /\ futures[k].state = "finished"
    /\ futures' = [futures EXCEPT ![k].state = "collected"]
    /\ results' = IF futures[k].value.nodes # <<>>
                  THEN Append(results, <<futures[k].name, futures[k].value>>)
                  ELSE results
    /\ UNCHANGED <<engine_vars, graph, diff_vars, text_vars, drafts, final, llm, pc>>

\* as_completed has given every future: "return results", then
\* "normalized_drafts = self._normalize_ids(drafts)"
Normalize ==
    /\ pc = "collect"
    /\ \A k \in DOMAIN futures : futures[k].state = "collected"
    /\ drafts' = normalize_ids(results, llm.mapping)
    /\ pc' = "merge"
    /\ UNCHANGED <<engine_vars, graph, diff_vars, text_vars, futures, results, final, llm>>

\* "final_graph = self._merge_union(normalized_drafts)"
Merge ==
    /\ pc = "merge"
    /\ final' = merge_union(drafts)
    /\ pc' = "merged"
    /\ UNCHANGED <<engine_vars, graph, diff_vars, text_vars, drafts, futures, results, llm>>

InitMerge ==
    /\ IdleEngine /\ IdleDiff /\ IdleText
    /\ graph = EmptyDiagram
    /\ pc = "submit"
    /\ llm \in Answers
    /\ futures = <<>>
    /\ results = <<>>
    /\ drafts = <<>>
    /\ final = AgentGraph(<<>>, <<>>)

NextMerge ==
    \/ Submit
    \/ \E k \in DOMAIN futures : WorkerStart(k)
    \/ \E k \in DOMAIN futures : WorkerReturn(k)
    \/ \E k \in DOMAIN futures : WorkerFails(k)
    \/ \E k \in DOMAIN futures : Collect(k)
    \/ Normalize
    \/ Merge

SpecMerge == InitMerge /\ [][NextMerge]_vars

-----------------------------------------------------------------------------
(* Claims about NodeRegistry, checked under SpecRegistry *)

HasBox(f) == f.bbox.some /\ Len(f.bbox.val) = 4

\* twice the centre of a (ymin, xmin, ymax, xmax) box
BoxCentre2(b) == <<b[1] + b[3], b[2] + b[4]>>

\* the centroids of the two boxes are closer than the threshold
CentroidsNear(f, g) ==
    LET c == BoxCentre2(f.bbox.val)
        d == BoxCentre2(g.bbox.val)
    IN  (c[1] - d[1]) * (c[1] - d[1]) + (c[2] - d[2]) * (c[2] - d[2]) 
            < 4 * spatial_threshold * spatial_threshold

GridCells(f) == IF f.grid_refs.some THEN Range(f.grid_refs.val) ELSE {}

GridsIntersect(f, g) == GridCells(f) \cap GridCells(g) # {}

OrdinalId(base, k) == IF k = 1 THEN base ELSE base \o <<"_">> \o Dec(k)

\* C5: resolving an identical Focus twice on a fresh registry returns the same
\* id both times, for every Focus, with or without bbox and grid_refs.
C5_SameFocusSameId ==
    (Len(resolve_log) >= 2 /\ resolve_log[1].focus = resolve_log[2].focus)
        => resolve_log[1].id = resolve_log[2].id

\* C6: two foci with the same suggested_id resolved one after the other on a
\* fresh registry get the same id if their grid_refs intersect or their bbox
\* centroids are closer than the threshold, and distinct ids, the second one
\* suffixed _2, if the grid_refs are disjoint and the centroids are at least
\* the threshold apart.
C6_HybridOrSemantics ==
    Len(resolve_log) >= 2 =>
        LET f == resolve_log[1].focus
            g == resolve_log[2].focus
            id1 == resolve_log[1].id
            id2 == resolve_log[2].id
        IN  (f.suggested_id = g.suggested_id) =>
              /\ GridsIntersect(f, g) => id2 = id1
              /\ (HasBox(f) /\ HasBox(g) /\ CentroidsNear(f, g)) => id2 = id1
              /\ (~GridsIntersect(f, g) /\ HasBox(f) /\ HasBox(g) /\ ~CentroidsNear(f, g))
                    => (id2 # id1 /\ id2 = id1 \o <<"_", "2">>)

\* disjoint grid_refs but near centroids: resolved identically
C6_Witness ==
    /\ Len(resolve_log) >= 2
    /\ resolve_log[1].focus.suggested_id = resolve_log[2].focus.suggested_id
    /\ GridCells(resolve_log[1].focus) # {} /\ GridCells(resolve_log[2].focus) # {}
    /\ ~GridsIntersect(resolve_log[1].focus, resolve_log[2].focus)
    /\ HasBox(resolve_log[1].focus) /\ HasBox(resolve_log[2].focus)
    /\ CentroidsNear(resolve_log[1].focus, resolve_log[2].focus)
    /\ resolve_log[1].focus # resolve_log[2].focus
    /\ resolve_log[2].id = resolve_log[1].id

RegistryAfter(i) == IF i = Len(resolve_log) THEN nodes ELSE resolve_log[i + 1].before

MatchingClusters(e) ==
    {k \in 1..Len(e.before[base_id_of(e.focus)]) :
        is_same_location_hybrid(e.focus, e.before[base_id_of(e.focus)][k],
                                spatial_threshold)}

\* C7: when the suggested_id already has clusters, resolve_id returns the id of
\* the first cluster in registration order that matches (the bare id for the
\* first, id_k for the k-th) and leaves the registry alone; when none matches it
\* appends the focus as a new cluster and returns id_n, n the new cluster count.
C7_FirstMatchOrdinal ==
    \A i \in 1..Len(resolve_log) :
        LET e == resolve_log[i]
            base == base_id_of(e.focus)
            after == RegistryAfter(i)
        IN  base \in DOMAIN e.before =>
              /\ MatchingClusters(e) # {} =>
                    /\ \E k \in MatchingClusters(e) :
                          /\ \A j \in MatchingClusters(e) : k <= j
                          /\ e.id = OrdinalId(base, k)
                    /\ after = e.before
              /\ MatchingClusters(e) = {} =>
                    /\ after = [e.before EXCEPT ![base] = Append(@, e.focus)]
                    /\ e.id = OrdinalId(base, Len(after[base]))
                    /\ Len(after[base]) >= 2

\* a focus that matches the second and the third cluster gets the second's id
C7_Witness ==
    \E i \in 1..Len(resolve_log) :
        LET e == resolve_log[i] IN
        /\ base_id_of(e.focus) \in DOMAIN e.before
        /\ MatchingClusters(e) = {2, 3}
        /\ e.id = OrdinalId(base_id_of(e.focus), 2)

\* C8: foci that the registry holds as different nodes (different suggested ids,
\* or the same suggested id at non-matching locations) are never given the same
\* resolved id.
C8_DistinctClustersDistinctIds ==
    \A i, j \in 1..Len(resolve_log) :
        resolve_log[i].cluster # resolve_log[j].cluster
            => resolve_log[i].id # resolve_log[j].id

-----------------------------------------------------------------------------
(* Claims about _crawl, checked under SpecCrawl / SpecCrawlFair *)

\* Variant of the while loop: a pass either explores a node, which uses up one
\* of the 30 steps and adds at most the answer's edges to the frontier, or skips
\* a visited focus, which shortens the frontier.
CrawlRank == (30 - step_count) * (MaxOut + 1) + Len(frontier_queue)

\* C3: _crawl terminates for every oracle: it stops when the frontier is empty
\* or after 30 explored nodes, so it makes at most 30 interpret_step calls and
\* returns at most 30 steps, even when every explored node reports new targets.
C3_CrawlBounded ==
    /\ [](/\ step_count <= 30
          /\ interpret_calls <= 30
          /\ Len(step_history) <= 30
          /\ pc = "crawled" => (frontier_queue = <<>> \/ step_count = 30))
    /\ [][(pc = "crawl" /\ pc' = "crawl") => (CrawlRank' < CrawlRank /\ CrawlRank' >= 0)]_vars

\* the ceiling stops a crawl in which every explored node reported targets
C3_Witness ==
    /\ pc = "crawled"
    /\ interpret_calls = 30
    /\ frontier_queue # <<>>
    /\ \A j \in 1..Len(step_history) : step_history[j].outgoing_edges # <<>>

\* the oracle's answer for the node of a step
RawAnswer(step) == image.at[<<step.source_bbox, step.source_grid_refs>>]

\* number of resolve_id calls made before the edges of step j are resolved
RECURSIVE CallsBefore(_)
CallsBefore(j) ==
    IF j = 1 THEN Len(image.start_nodes)
    ELSE CallsBefore(j - 1) + Len(step_history[j - 1].outgoing_edges)

\* C4: every step returned by _crawl has a source_id that resolve_id returned,
\* and the target_id of each of its outgoing edges is the id that resolve_id
\* returned for that target: the oracle's raw id is overwritten in place.
C4_ResolvedIds ==
    pc \in {"crawl", "crawled"} =>
        \A j \in 1..Len(step_history) :
            LET step == step_history[j]
                raw == RawAnswer(step).outgoing_edges
            IN  /\ \E c \in 1..Len(resolve_log) :
                      /\ resolve_log[c].id = step.source_id
                      /\ resolve_log[c].focus.bbox = step.source_bbox
                      /\ resolve_log[c].focus.grid_refs = step.source_grid_refs
                /\ Len(step.outgoing_edges) = Len(raw)
                /\ \A k \in 1..Len(raw) :
                      LET call == resolve_log[CallsBefore(j) + k] IN
                      /\ call.focus = Focus(Some(raw[k].target_id), raw[k].bbox,
                                            raw[k].grid_refs)
                      /\ step.outgoing_edges[k].target_id = call.id

\* a returned step has an edge whose target differs from the oracle's raw id
C4_Witness ==
    /\ pc = "crawled"
    /\ \E j \in 1..Len(step_history) :
          \E k \in 1..Len(step_history[j].outgoing_edges) :
              step_history[j].outgoing_edges[k].target_id
                  # RawAnswer(step_history[j]).outgoing_edges[k].target_id

-----------------------------------------------------------------------------
(* Claims about a whole run of process, checked under SpecRun *)

\* a step _execute_fix_batch created: it alone has no location
IsPlaceholder(step) == ~step.source_bbox.some /\ ~step.source_grid_refs.some

Distinct(q) == \A j, k \in DOMAIN q : j # k => q[j] # q[k]

\* every step of the loop moves it on: to its end (its return, or an oracle
\* failure that leaves it), to a later attempt, from the check of an attempt to
\* its fixes, or to the next task of its batch
LoopMovesOn ==
    \/ pc' \in {"done", "raised"}
    \/ attempt' > attempt
    \/ attempt' = attempt /\ pc = "loop" /\ pc' = "fix"
    \/ /\ attempt' = attempt /\ pc = "fix" /\ pc' = "fix"
       /\ tasks' = tasks
       /\ task_idx' > task_idx /\ task_idx' <= Len(tasks)

\* C1: whatever the audits answer, _run_consistency_loop makes at most
\* max_attempts (10) iterations and ends: every step it takes moves it on towards
\* the end of range(max_attempts); and within one iteration audit_node is
\* called at most once per node, only for nodes that were in step_history when
\* the iteration started.
C1_LoopBounded ==
    /\ [](/\ attempt <= max_attempts
          /\ iter_log.iterations <= max_attempts
          /\ Distinct(iter_log.audited)
          /\ \A k \in DOMAIN iter_log.audited :
                iter_log.audited[k] \in 1..iter_log.hist_len)
    /\ [][(pc \in {"loop", "fix"} => LoopMovesOn)]_vars

\* the loop has used all ten iterations, on a history that gained a placeholder
\* node, and audited two nodes in the last one
C1_Witness ==
    /\ pc = "done"
    /\ attempt = max_attempts
    /\ iter_log.iterations = max_attempts
    /\ Len(iter_log.audited) >= 2
    /\ \E i \in DOMAIN step_history : IsPlaceholder(step_history[i])

source_ids(history) == {history[i].source_id : i \in DOMAIN history}

\* C2: after a full run of process no edge references a non-existent node:
\* every outgoing edge target in step_history is the source_id of some step.
C2_NoDanglingEdges ==
    pc = "done" =>
        \A i \in DOMAIN step_history :
            edge_targets(step_history[i]) \subseteq source_ids(step_history)

\* an audit has just answered: _run_initial_audit or _execute_fix_batch took a
\* pass of its for loop
AuditAnswered == audit_idx' = audit_idx + 1 \/ task_idx' = task_idx + 1

\* the rewrite of `before` into `after` under the confirmed list: the targets
\* are exactly the confirmed set, every edge kept is an edge of `before`, in
\* the order of `before`, and every other edge is a new edge to a confirmed
\* target `before` did not have, one per such target
RewrittenTo(before, after, confirmed) ==
    LET old == Range(target_ids(before))
        n == Cardinality({k \in DOMAIN after : after[k].target_id \in old})
    IN  /\ Range(target_ids(after)) = Range(confirmed)
        /\ Distinct(target_ids(after))
        /\ \A k \in 1..n :
              /\ after[k].target_id \in old
              /\ \E j \in DOMAIN before : before[j] = after[k]
        /\ \A j, k \in 1..n : j < k =>
              \E a, b \in DOMAIN before : a < b /\ before[a] = after[j] /\ before[b] = after[k]
        /\ \A k \in DOMAIN after : k > n =>
              /\ after[k] = AddedEdge(after[k].target_id)
              /\ after[k].target_id \notin old

\* C9: when an audit returns a non-null confirmed-outgoing list, in the initial
\* audit and in the forward patch of a flagged node, the node's outgoing edges
\* are rewritten to exactly the confirmed set (unconfirmed edges dropped,
\* confirmed targets not yet present added as new edges, kept edges the node's
\* original edges); a null confirmation leaves them unchanged. The initial
\* audit stores the rewritten edges and touches no other node.
C9_RewriteToConfirmed ==
    [][(AuditAnswered =>
        LET i == last_rewrite'.index
            before == step_history[i].outgoing_edges
            after == last_rewrite'.after
            confirmed == last_rewrite'.confirmed
        IN  /\ i \in DOMAIN step_history
            /\ IF confirmed.some
               THEN RewrittenTo(before, after, confirmed.val)
               ELSE after = before
            /\ audit_idx' = audit_idx + 1 =>
                  step_history' = [step_history EXCEPT
                      ![i].outgoing_edges = after,
                      ![i].audit_confirmed_outgoing =
                          IF confirmed.some THEN confirmed ELSE @])]_vars

\* a forward patch of Start in the fork has, in one rewrite, kept the drawn
\* edge to A, dropped the edge Start had to itself and added an edge to End
C9_Witness ==
    /\ pc = "fix"
    /\ task_idx >= 1
    /\ image.at[LS].outgoing_edges = Fork.out[LS]
    /\ last_rewrite.index = 1
    /\ last_rewrite.confirmed = Some(<<id_End, id_A>>)
    /\ last_rewrite.after = <<Seen(id_A, None, LA), AddedEdge(id_End)>>
    /\ step_history[1].outgoing_edges = last_rewrite.after

EdgeCount(history) ==
    LET RECURSIVE count(_)
        count(i) == IF i = 0 THEN 0 ELSE Len(history[i].outgoing_edges) + count(i - 1)
    IN  count(Len(history))

\* the simple chain: Start -> A and A -> End are reported, the numbers of
\* incoming arrows observed are those of the chain
ChainObserved ==
    image.at = [l \in RunLocs |->
                   [outgoing_edges |-> Chain.out[l],
                    incoming_edges |-> IF l = LS THEN 0 ELSE 1]]

\* the initial audit of every node confirmed the edges reported for it
AuditsConfirmEdges ==
    \A i \in DOMAIN step_history :
        /\ step_history[i].audit_confirmed_outgoing.some
        /\ step_history[i].audit_confirmed_outgoing.val =
               target_ids(image.at[<<step_history[i].source_bbox,
                                     step_history[i].source_grid_refs>>].outgoing_edges)

\* C10: when the first check of the consistency loop flags no node, the loop
\* stops at once with no audit call and step_history unchanged; in the simple
\* chain (Start -> A, A -> End, audits confirm these edges, observed incoming
\* counts match) this is what happens and the final graph has exactly 3 nodes
\* and 2 edges.
C10_ConvergedAtOnce ==
    [][((pc = "loop" /\ attempt = 0) =>
        /\ find_inconsistencies(step_history, 1) = <<>> =>
              /\ pc' = "done"
              /\ step_history' = step_history
              /\ iter_log'.iterations = 1
              /\ iter_log'.audited = <<>>
        /\ (ChainObserved /\ AuditsConfirmEdges) =>
              /\ find_inconsistencies(step_history, 1) = <<>>
              /\ pc' = "done"
              /\ source_ids(step_history') = {id_Start, id_A, id_End}
              /\ Len(step_history') = 3
              /\ EdgeCount(step_history') = 2)]_vars

\* the run of the simple chain has ended after one check and no audit
C10_Witness ==
    /\ pc = "done"
    /\ ChainObserved
    /\ AuditsConfirmEdges
    /\ iter_log.iterations = 1
    /\ iter_log.audited = <<>>
    /\ attempt = 0
    /\ Len(step_history) = 3
    /\ EdgeCount(step_history) = 2

\* the task a pass of _execute_fix_batch has just handled
FixAnswered == pc = "fix" /\ task_idx' = task_idx + 1

\* step_history as the forward patch of the task leaves it, before the reverse
\* patch: the audited node has its new confirmations and its rewritten edges
AfterForwardPatch ==
    LET i == tasks[task_idx + 1].index IN
    [step_history EXCEPT
        ![i].audit_confirmed_incoming = step_history'[i].audit_confirmed_incoming,
        ![i].audit_confirmed_outgoing = last_rewrite'.confirmed,
        ![i].outgoing_edges = last_rewrite'.after]

\* m is the node of the graph that has the id src
IsNode(history, m, src) ==
    /\ history[m].source_id = src
    /\ \A j \in 1..(m - 1) : history[j].source_id # src

\* the steps of a history that the ids of S are looked up to
located(history, S) == {find_matching_node(src, history) : src \in S} \ {0}

UnconfirmedRemoved ==
    AuditAnswered =>
        LET before == step_history[last_rewrite'.index].outgoing_edges
            confirmed == last_rewrite'.confirmed
        IN  confirmed.some =>
               \A k \in DOMAIN before :
                  before[k].target_id \notin Range(confirmed.val) =>
                     before[k].target_id \notin Range(target_ids(last_rewrite'.after))

\* C12 as stated: if A's crawl step claims A -> C and an audit of A returns a
\* confirmed-outgoing list without C, the edge is removed from A's edges, and
\* it is absent at the end of the run provided no audit of C names A as an
\* incoming source.
C12_RemovedEdgeStaysOut ==
    /\ [][UnconfirmedRemoved]_vars
    /\ [](pc = "done" =>
            \A pr \in audit_trail.removed :
               <<pr[2], pr[1]>> \notin audit_trail.named =>
                  pr \notin reported_edges(step_history))

\* C12 amended: ... it is absent at the end of the run provided no later audit
\* of A lists C again and no audit of C names A as an incoming source.
C12_RemovedEdgeStaysOutUnlessReconfirmed ==
    /\ [][UnconfirmedRemoved]_vars
    /\ [](pc = "done" =>
            \A pr \in audit_trail.removed :
               (pr \notin audit_trail.reconfirmed /\ <<pr[2], pr[1]>> \notin audit_trail.named) =>
                  pr \notin reported_edges(step_history))

\* the run has ended after fix iterations, the edge Start -> A the crawl
\* reported was removed by an audit of Start, no later audit of Start listed A
\* and no audit of A named Start; A has been audited too
C12_Witness ==
    /\ pc = "done"
    /\ attempt >= 2
    /\ <<id_Start, id_A>> \in audit_trail.removed
    /\ <<id_Start, id_A>> \notin audit_trail.reconfirmed
    /\ <<id_A, id_Start>> \notin audit_trail.named
    /\ step_history[2].source_id = id_A
    /\ step_history[2].audit_confirmed_incoming.some

\* the pass of _execute_fix_batch just taken changed something: the audited
\* node's confirmed incoming or outgoing set, its edges (forward patch), or,
\* by the reverse patch, another node's edges and cached list or the number of
\* nodes
ChangeMade ==
    LET i == tasks[task_idx + 1].index
        step == step_history[i]
    IN  \/ opt_set(step.audit_confirmed_incoming) #
               opt_set(step_history'[i].audit_confirmed_incoming)
        \/ opt_set(step.audit_confirmed_outgoing) # opt_set(last_rewrite'.confirmed)
        \/ last_rewrite'.after # step.outgoing_edges
        \/ step_history' # AfterForwardPatch

\* C13: a fix iteration in which no pass changed anything (no edge added or
\* removed, no placeholder created, no confirmed incoming or outgoing set
\* changed) is the last one: the loop stops right after it, with step_history
\* as it is and flagged nodes remaining, and nothing runs after the stop, so
\* no further audit call is made. The changes flag that decides this is false
\* when the batch starts and becomes true exactly when a pass changes something.
C13_StopsWhenNothingChanged ==
    /\ [][((pc = "loop" /\ pc' = "fix") => ~changes')]_vars
    /\ [][(FixAnswered => (changes' <=> (changes \/ ChangeMade)))]_vars
    /\ [][((pc = "fix" /\ task_idx = Len(tasks) /\ ~changes) =>
              (pc' = "done" /\ step_history' = step_history))]_vars
    /\ [][(pc # "done")]_vars

\* the loop has stopped in a later iteration whose audits changed nothing,
\* with nodes still flagged and attempts left
C13_Witness ==
    /\ pc = "done"
    /\ attempt >= 1
    /\ attempt < max_attempts
    /\ tasks # <<>>
    /\ task_idx = Len(tasks)
    /\ ~changes
    /\ find_inconsistencies(step_history, 1) # <<>>

\* C14: against an oracle whose audit answer for a node is the same every
\* time, the loop does not oscillate: an edge set the graph has at the check
\* of an iteration is not one it had at an earlier check and left in between.
C14_NoOscillation ==
    Steady(image) =>
        LET E == iter_log.edge_sets IN
        \A j, l \in DOMAIN E :
            (j < l /\ E[j] = E[l]) => \A k \in j..l : E[k] = E[j]

\* the consistency loop has ended with nodes that are still flagged
FlagsRemain == pc = "done" /\ find_inconsistencies(step_history, 1) # <<>>

\* what process returns when Start is crawled alone with no incoming arrow and
\* the loop converges at its first check
LoneStartResult == [raw_content |-> {}, full_description |-> 1]

\* C15: a run whose loop ends with flagged nodes remaining reports this, so
\* that its caller can tell it from a converged run: the result a converged run
\* returns is not returned by a run that ended with flags.
C15_ExhaustionReported ==
    FlagsRemain => DiagramResult(step_history) # LoneStartResult

\* C16: a confirmed incoming source without identifying text is dropped by the
\* reverse patch: no step is created for it, and the serialized output has
\* no edge from an unnamed source.
C16_UnnamedSourceDropped ==
    /\ \A i \in DOMAIN step_history : step_history[i].source_id # NoName
    /\ \A l \in synthesize(step_history) : ~IsPrefix(Unknown \o <<" ">>, l)

-----------------------------------------------------------------------------
(* Failures of oracle calls *)

\* C17: a failure of any oracle call of a run, the per-edge verification
\* queries of audit_node included, is raised to the caller at once: no failure
\* is caught and followed by more of the run with an assumed result.
C17_FailureRaised == ~audit_trail.caught

-----------------------------------------------------------------------------
(* Claims about the correction operations, checked under SpecRefine *)

\* the last two passes of the loop had the same operation
AppliedTwice == op_count >= 2 /\ op_trail.op = op_trail.prev

\* C18: for every graph and every operation of the vocabulary, applying the
\* operation twice in a row yields the same graph as applying it once: the
\* second pass ends normally and leaves the graph of the first.
C18_Idempotent ==
    AppliedTwice => op_trail.outcome # "raised" /\ graph = op_trail.before

\* the structured pipeline added an edge, then passed over the same add_edge
C18_Witness ==
    /\ AppliedTwice
    /\ pipeline = "structured"
    /\ op_trail.op.op = Some("add_edge")
    /\ op_trail.prev_outcome = "applied"
    /\ op_trail.outcome = "skipped"
    /\ Len(graph.edges) = 2

\* a shape or a style of the operation is outside its enumeration
invalid_fields(d) ==
    \/ d.new_shape.some /\ d.new_shape.val \notin Shapes
    \/ d.shape.some /\ d.shape.val \notin Shapes
    \/ d.style.some /\ d.style.val \notin Styles

\* C19: applying a batch never raises and never aborts, and an operation with
\* a shape or a style outside the enumerations is skipped and leaves the graph
\* unchanged.
C19_BatchDegrades ==
    /\ pc # "raised"
    /\ op_count > 0 /\ invalid_fields(op_trail.op) =>
          op_trail.outcome = "skipped" /\ graph = op_trail.before

\* every edge's endpoints are nodes of the graph
well_formed(g) ==
    \A k \in DOMAIN g.edges :
        g.edges[k].src \in DOMAIN g.nodes /\ g.edges[k].dst \in DOMAIN g.nodes

\* C20: starting from a graph whose edges' endpoints are existing nodes, after
\* any sequence of correction operations every edge's endpoints are still
\* existing nodes.
C20_EndpointsExist == well_formed(graph)

-----------------------------------------------------------------------------
(* Claim about _find_inconsistencies, checked under SpecRun *)

\* the step is the check of an iteration of the loop
IterationChecks == pc = "loop" /\ attempt < max_attempts

\* the indices the check flags
flagged_after == IF pc' = "fix" THEN {tasks'[k].index : k \in DOMAIN tasks'} ELSE {}

\* the sources of the edges into n, the targets of the edges out of n
sources_into(history, n) ==
    {history[j].source_id : j \in {j \in DOMAIN history :
        \E k \in DOMAIN history[j].outgoing_edges :
            history[j].outgoing_edges[k].target_id = n}}

targets_out_of(history, n) ==
    {e.target_id : e \in UNION {Range(history[j].outgoing_edges) :
                                   j \in {j \in DOMAIN history : history[j].source_id = n}}}

\* (a), (b), (c) for the step at index i, the edges of every step counted
Disagrees(history, i, sources) ==
    LET step == history[i] IN
    \/ /\ step.audit_confirmed_incoming.some
       /\ Range(step.audit_confirmed_incoming.val) # sources
    \/ /\ ~step.audit_confirmed_incoming.some
       /\ Cardinality(sources) # step.incoming_edges
    \/ targets_out_of(history, step.source_id)
           # {e.target_id : e \in Range(step.outgoing_edges)}

-----------------------------------------------------------------------------
(* Claims about GraphStructure.diff, checked under SpecDiff *)

\* h is g with exactly one new node and nothing else changed
OneNodeAdded(g, h) ==
    \E k \in DOMAIN h.nodes :
        /\ h.nodes[k].id \notin node_ids(g)
        /\ g = [h EXCEPT !.nodes = SubSeq(@, 1, k - 1) \o SubSeq(@, k + 1, Len(@))]

\* C21: for every graph G, G.diff(G).is_empty is true; and if H is G with
\* exactly one new node added and nothing else changed, G.diff(H) has that node
\* as the only entry of added_nodes and every other field of the diff is empty.
C21_DiffOfSelfAndOfOneNode ==
    pc = "diffed" =>
        /\ other_graph = graph => is_empty(graph_diff)
        /\ OneNodeAdded(graph, other_graph) =>
              /\ graph_diff.added_nodes = Range(other_graph.nodes) \ Range(graph.nodes)
              /\ Cardinality(graph_diff.added_nodes) = 1
              /\ is_empty([graph_diff EXCEPT !.added_nodes = {}])

\* a graph with two nodes and an edge was diffed against itself with a node
\* more in front
C21_Witness ==
    /\ pc = "diffed"
    /\ OneNodeAdded(graph, other_graph)
    /\ Len(graph.nodes) = 2 /\ graph.edges # <<>>
    /\ other_graph.nodes[1].id = id_C

-----------------------------------------------------------------------------
(* Claims about to_mermaid and MermaidParser.parse, checked under SpecText *)

\* the text that was parsed is the text of the graph
ParsedBack == pc = "parsed" /\ code = to_mermaid(graph)

\* C22: for any GraphStructure G with unique ids and escape-safe labels (any
\* shape, any edge style, labelled or unlabelled edges), parse(G.to_mermaid())
\* has the same node-id set, the same label and shape for every id, and the
\* same set of (src,dst) edge pairs as G.
C22_RoundTrip ==
    ParsedBack =>
        /\ node_ids(parsed) = node_ids(graph)
        /\ \A nid \in node_ids(graph) \cap node_ids(parsed) :
              /\ node_of(parsed, nid).label = node_of(graph, nid).label
              /\ node_of(parsed, nid).shape = node_of(graph, nid).shape
        /\ edge_set(parsed) = edge_set(graph)

\* the text is the text of the graph, made by either to_mermaid
Serialized ==
    \/ pc = "parse" /\ line_no = 0 /\ code = to_mermaid(graph)
    \/ pc = "agent_text"

\* a line that declares a node: an id and an opening bracket
declares_node(text) ==
    re_match(Cat(<<Star(Sp), Ident, OneOf({"[", "(", "{"})>>), text).ok

\* the id a declaration line declares
declared_id(text) ==
    group(text, re_match(Cat(<<Star(Sp), Group(1, Ident)>>), text), 1)

\* a line of an edge between ids: "src style dst" or "src style|label| dst"
edge_by_ids(text) ==
    re_match(Cat(<<Star(Sp), Group(1, Ident), Sp, AnyArrow,
                   Alt(<<Cat(<<Lit(<<"|">>), Group(2, LazyPlus(Dot)), Lit(<<"|">>), Sp>>),
                         Sp>>),
                   Group(3, Ident), AtEnd>>), text)

\* C23: the serialized text declares every node of the map exactly once, in
\* map order, with all node declarations before the first edge line, and every
\* edge line names its endpoints by id only; the same graph always serializes
\* to the same text.
C23_DeclaredInMapOrder ==
    Serialized =>
        LET text_lines == splitlines(code)
            declarations == SelectSeq(text_lines, declares_node)
            first_edge == Len(text_lines) - Len(graph.edges) + 1
        IN  /\ [k \in DOMAIN declarations |-> declared_id(declarations[k])]
                  = [k \in DOMAIN graph.nodes |-> graph.nodes[k].id]
            /\ \A k \in DOMAIN text_lines :
                  declares_node(text_lines[k]) => k < first_edge
            /\ \A k \in DOMAIN graph.edges :
                  LET m == edge_by_ids(text_lines[first_edge + k - 1])
                  IN  /\ m.ok
                      /\ group(text_lines[first_edge + k - 1], m, 1) = graph.edges[k].src
                      /\ group(text_lines[first_edge + k - 1], m, 3) = graph.edges[k].dst

\* C24: while parsing, the first occurrence of a node id (declaration or
\* reference) fixes its label and shape; every later occurrence of the same id,
\* with any label or shape, leaves the stored node unchanged.
C24_FirstSeenWins ==
    [][(pc = "parse" =>
            \A nid \in node_ids(parsed) :
                /\ nid \in node_ids(parsed')
                /\ node_of(parsed', nid) = node_of(parsed, nid))]_vars

\* the line that was parsed last names, with a label of its own, an id that was
\* stored before with another label
C24_Witness ==
    /\ pc = "parse" /\ line_no > 1
    /\ \E nid \in node_ids(parsed), k \in DOMAIN SHAPE_PATTERNS :
          LET stripped == preprocess_line(strip(lines_of(code)[line_no]))
              found == re_search(Cat(<<Lit(nid), Lit(SHAPE_PATTERNS[k].open),
                                       Group(2, LazyPlus(Dot)),
                                       Lit(SHAPE_PATTERNS[k].close)>>), stripped)
          IN  /\ found.ok
              /\ group(stripped, found, 2) # node_of(parsed, nid).label
              /\ SHAPE_PATTERNS[k].shape # node_of(parsed, nid).shape

\* the text that was parsed is the chain c
ChainParsed(c) == pc = "parsed" /\ code = chain_text(c.refs, c.arrows, c.blank)

\* the edges between the consecutive references of the chain c
chain_pairs(c) ==
    [k \in DOMAIN c.arrows |-> EdgeEntry(c.refs[k], c.refs[k + 1], <<>>, c.arrows[k])]

\* C25: a bare-arrow chain line with n node references joined by arrows parses
\* to exactly n-1 edges, one between each pair of consecutive references in
\* left-to-right order, each with the style of the arrow that stands between
\* the two references, also when the arrows of the chain have different styles.
C25_ChainPairs ==
    \A c \in Chains : ChainParsed(c) => parsed.edges = chain_pairs(c)

\* the one line of the text "D --|need approval| E"
StubLine ==
    <<"D", " ", "-", "-", "|", "n", "e", "e", "d", " ",
      "a", "p", "p", "r", "o", "v", "a", "l", "|", " ", "E">>

\* C26: the malformed line 'D --|need approval| E' (pipe label after a two-dash
\* stub, no arrow) parses to exactly one edge from D to E with label 'need
\* approval' and the unlabeled line style '---', and creates only the nodes D
\* and E.
C26_StubLabel ==
    pc = "parsed" /\ code = StubLine =>
        /\ parsed.edges =
              <<EdgeEntry(<<"D">>, <<"E">>,
                          <<"n", "e", "e", "d", " ", "a", "p", "p", "r", "o", "v", "a", "l">>,
                          <<"-", "-", "-">>)>>
        /\ node_ids(parsed) = {<<"D">>, <<"E">>}

\* the line was parsed, as an edge line
C26_Witness ==
    /\ pc = "parsed" /\ code = StubLine
    /\ line_no = 1
    /\ Len(parse_log) = 2

\* the ways of _parse_node_ref that are fallbacks
Fallbacks == {"heuristic", "fallback"}

\* C27: parsing never fails on any input text, and every time a node reference
\* is resolved by a fallback (heuristic match on an opening bracket whose
\* closing bracket is missing, or sanitizing unparseable text into a synthetic
\* id) the fallback input is recorded in the parse's fallback log.
C27_FallbacksLogged ==
    /\ pc = "parse" => line_no <= Len(lines_of(code))
    /\ \A k \in DOMAIN parse_log :
          parse_log[k][1] \in Fallbacks => parse_log[k][2] \in Range(fallback_events)

-----------------------------------------------------------------------------
(* Claims about the multi-draft agent, checked under SpecMerge *)

\* what the task of a perspective returns
returned(name) ==
    IF llm.raises[name] THEN AgentGraph(<<>>, <<>>) ELSE llm.draft[name]

\* the results, had the tasks completed in the order they were submitted
results_in_order ==
    LET kept == SelectSeq(perspectives, LAMBDA name : returned(name).nodes # <<>>)
    IN  [k \in DOMAIN kept |-> <<kept[k], returned(kept[k])>>]

\* a step of a worker: a task starts or returns
WorkerStep ==
    \E k \in DOMAIN futures :
        /\ futures[k].state \in {"pending", "running"}
        /\ futures'[k].state \in {"running", "finished"}
        /\ futures'[k] # futures[k]

\* C28: in multi-draft mode the draft tasks run on the worker pool without
\* writing any shared state, the merge starts only after every draft task has
\* finished, and the merged graph is the same for every order in which the
\* draft tasks complete.
C28_MergeAfterDrafts ==
    /\ [][(WorkerStep =>
              /\ UNCHANGED <<results, drafts, final, llm, pc>>
              /\ \E k \in DOMAIN futures :
                    \A j \in DOMAIN futures \ {k} : futures'[j] = futures[j])]_vars
    /\ [](pc \in {"merge", "merged"} =>
              /\ Len(futures) = Len(perspectives)
              /\ \A k \in DOMAIN futures : futures[k].state = "collected")
    /\ [](pc = "merged" =>
              final = merge_union(normalize_ids(results_in_order, llm.mapping)))

\* three drafts were merged, and the task submitted last completed first
C28_Witness ==
    /\ pc = "merged"
    /\ Len(results) = 3
    /\ results[1][1] = "Pessimist"
    /\ results[3][1] = "Structuralist"
    /\ final.edges # <<>>

\* the drafts that are merged, in the fixed order
sources == SelectSeq(priority, LAMBDA name : has_key(drafts, name))

\* the first of the sources that has a node nid
first_with_node(nid) ==
    sources[first_of({k \in DOMAIN sources : nid \in node_ids(value_of(drafts, sources[k]))})]

\* the first of the sources that has an edge from src to dst
first_with_edge(pair) ==
    sources[first_of({k \in DOMAIN sources : pair \in edge_set(value_of(drafts, sources[k]))})]

\* the first edge of g between the two nodes
first_edge(g, pair) ==
    g.edges[first_of({k \in DOMAIN g.edges : <<g.edges[k].src, g.edges[k].dst>> = pair})]

\* C29: the union merge of drafts contains a node for every node id of any
\* draft and one edge for every (src,dst) pair of any draft; when several
\* drafts have the same node id or the same (src,dst) pair, the entry of the
\* first source in the fixed order Structuralist, Optimist, Pessimist is the
\* one kept; every edge of the merged graph has both endpoints among its nodes.
C29_UnionMerge ==
    pc = "merged" =>
        /\ node_ids(final) =
              UNION {node_ids(value_of(drafts, name)) : name \in Range(sources)}
        /\ Len(final.nodes) = Cardinality(node_ids(final))
        /\ \A nid \in node_ids(final) :
              node_of(final, nid) = node_of(value_of(drafts, first_with_node(nid)), nid)
        /\ edge_set(final) =
              UNION {edge_set(value_of(drafts, name)) : name \in Range(sources)}
        /\ Len(final.edges) = Cardinality(edge_set(final))
        /\ \A pair \in edge_set(final) :
              first_edge(final, pair)
                  = first_edge(value_of(drafts, first_with_edge(pair)), pair)
        /\ \A k \in DOMAIN final.edges :
              final.edges[k].src \in node_ids(final) /\ final.edges[k].dst \in node_ids(final)

\* three drafts were merged that share a node id and a pair of endpoints
C29_Witness ==
    /\ pc = "merged"
    /\ Len(sources) = 3
    /\ \E nid \in node_ids(final) :
          \A name \in Range(sources) : nid \in node_ids(value_of(drafts, name))
    /\ \E pair \in edge_set(final) :
          Cardinality({name \in Range(sources) :
                          pair \in edge_set(value_of(drafts, name))}) >= 2


-----------------------------------------------------------------------------
(* Placeholders of the reverse patch *)

\* the steps a pass of _execute_fix_batch has appended to step_history
appended_steps == (Len(step_history) + 1)..Len(step_history')

\* C31: a confirmed incoming source that matches no step of the history gets a
\* placeholder step appended, with the oracle's identifier as source_id and
\* exactly one outgoing edge, to the flagged node; a later look-up of the same
\* identifier finds this placeholder, so at most one placeholder is created
\* per identifier.
C31_OnePlaceholderPerIdentifier ==
    /\ [][(FixAnswered =>
            LET i == tasks[task_idx + 1].index
                B == step_history[i].source_id
                named == opt_set(step_history'[i].audit_confirmed_incoming)
                fwd == AfterForwardPatch
            IN  /\ \A k \in appended_steps :
                      /\ step_history'[k].source_id \in named
                      /\ find_matching_node(step_history'[k].source_id, fwd) = 0
                      /\ step_history'[k] =
                            missing_node(step_history'[k].source_id, B)
                /\ \A src \in named :
                      /\ find_matching_node(src, fwd) = 0 =>
                            Cardinality({k \in appended_steps :
                                            step_history'[k].source_id = src}) = 1
                      /\ find_matching_node(src, step_history') # 0)]_vars
    /\ [](\A j, k \in DOMAIN step_history :
             /\ IsPlaceholder(step_history[j]) /\ IsPlaceholder(step_history[k])
             /\ step_history[j].source_id = step_history[k].source_id
             => j = k)


-----------------------------------------------------------------------------
(* The two modes of the crawl on one oracle *)

\* the while loop of _crawl in mode m, from a frontier, a registry, the visited
\* ids and the history so far: the step_history it returns
RECURSIVE crawl_loop(_, _, _, _, _, _, _)
crawl_loop(m, at, reg, frontier, visited, history, count) ==
    IF ~(frontier # <<>> /\ count < StepCeiling) THEN history
    ELSE LET current == IF m = "dfs" THEN frontier[Len(frontier)] ELSE Head(frontier)
             rest == IF m = "dfs" THEN SubSeq(frontier, 1, Len(frontier) - 1)
                                  ELSE Tail(frontier)
         IN  IF current.suggested_id.val \in visited
             THEN crawl_loop(m, at, reg, rest, visited, history, count)
             ELSE LET answer == at[<<current.bbox, current.grid_refs>>]
                      seen == visited \cup {current.suggested_id.val}
                      q == queue_next(reg, <<>>, rest, answer.outgoing_edges, seen, 1)
                  IN  crawl_loop(m, at, q.nodes, q.frontier, seen,
                          Append(history,
                              StepInterpretation(current.suggested_id.val, q.edges,
                                                 answer.incoming_edges, current.bbox,
                                                 current.grid_refs)),
                          count + 1)

\* _crawl in mode m on the oracle img, with a fresh registry
crawl(m, img) ==
    crawl_loop(m, img.at, seed_frontier(<<>>, <<>>, <<>>, img.start_nodes).nodes,
               seed_frontier(<<>>, <<>>, <<>>, img.start_nodes).frontier,
               {}, <<>>, 0)

other_mode == IF mode = "dfs" THEN "bfs" ELSE "dfs"

\* C32: with the same oracle answers and the step ceiling not reached, the
\* crawl in depth-first mode and the crawl in breadth-first mode explore the
\* same set of node ids and produce the same set of edges; only the order of
\* the steps differs.
C32_ModesAgree ==
    pc = "crawled" /\ step_count < StepCeiling =>
        /\ step_history = crawl(mode, image)
        /\ Len(crawl(other_mode, image)) < StepCeiling =>
              /\ source_ids(crawl(other_mode, image)) = source_ids(step_history)
              /\ reported_edges(crawl(other_mode, image)) = reported_edges(step_history)


-----------------------------------------------------------------------------
(* One step per id *)

\* the while loop of _crawl is at a focus whose id is already visited
AtVisitedFocus ==
    /\ pc = "crawl"
    /\ frontier_queue # <<>> /\ step_count < StepCeiling
    /\ popped(frontier_queue).suggested_id.val \in visited_ids

\* C33: at every point of a run the source ids of the steps in step_history
\* are pairwise distinct: during the crawl a popped focus whose id is already
\* visited is skipped without an oracle call and without consuming the step
\* budget, and during reconciliation a placeholder is appended only for an
\* identifier that no existing step has.
C33_DistinctSourceIds ==
    /\ [](\A j, k \in DOMAIN step_history :
             step_history[j].source_id = step_history[k].source_id => j = k)
    /\ [][AtVisitedFocus =>
            /\ interpret_calls' = interpret_calls
            /\ step_count' = step_count
            /\ step_history' = step_history]_vars
    /\ [][FixAnswered =>
            \A k \in appended_steps :
                \A j \in 1..(k - 1) :
                    step_history'[j].source_id # step_history'[k].source_id]_vars


-----------------------------------------------------------------------------
(* Every reported target is explored *)

\* the targets of the edges of a history
all_targets(history) == {e[2] : e \in reported_edges(history)}

\* the ids of the foci waiting in the frontier
waiting_ids == {frontier_queue[k].suggested_id.val : k \in DOMAIN frontier_queue}

\* C34: if the crawl ends because the frontier is empty (step ceiling not
\* reached), every outgoing edge target in the returned step_history has its
\* own step in step_history: every target that was reported is explored before
\* the crawl returns. While the crawl runs, every reported target has its step
\* or waits in the frontier.
C34_TargetsExplored ==
    /\ pc = "crawl" =>
          all_targets(step_history) \subseteq source_ids(step_history) \cup waiting_ids
    /\ pc = "crawled" /\ frontier_queue = <<>> =>
          all_targets(step_history) \subseteq source_ids(step_history)

C34_Witness ==
    /\ pc = "crawled" /\ frontier_queue = <<>> /\ step_count < StepCeiling
    /\ Len(step_history) >= 3
    /\ \E e \in reported_edges(step_history) :
          e[1] = step_history[1].source_id /\ e[2] = step_history[3].source_id


-----------------------------------------------------------------------------
(* Stability of the resolved ids *)

\* the focus has location data that the identity check reads: a non-empty
\* grid_refs list or a bbox
HasLocation(f) == Truthy(f.grid_refs) \/ Truthy(f.bbox)

\* the call that was just logged found its focus in a cluster of the registry
MatchedCall ==
    /\ Len(resolve_log') = Len(resolve_log) + 1
    /\ LET e == resolve_log'[Len(resolve_log')] IN
       /\ base_id_of(e.focus) \in DOMAIN nodes
       /\ first_match(e.focus, nodes[base_id_of(e.focus)], 1) # 0

\* C35: resolved ids are stable: once resolve_id has returned id r for a focus
\* that carries location data, resolving the same focus again returns r after
\* any number of calls in between; registered clusters are never removed or
\* reordered, and a call that matches an existing cluster leaves the registry
\* unchanged.
C35_ResolvedIdsStable ==
    /\ [](\A i, j \in DOMAIN resolve_log :
             /\ i < j
             /\ resolve_log[i].focus = resolve_log[j].focus
             /\ HasLocation(resolve_log[i].focus)
             => resolve_log[j].id = resolve_log[i].id)
    /\ [][\A b \in DOMAIN nodes :
             /\ b \in DOMAIN nodes'
             /\ IsPrefix(nodes[b], nodes'[b])]_vars
    /\ [][MatchedCall => nodes' = nodes]_vars

\* a focus resolved to the suffixed id of the second cluster, then a call that
\* registers a third cluster, then the same focus again with the same id
C35_Witness ==
    \E i, j \in DOMAIN resolve_log :
        /\ i + 1 < j
        /\ resolve_log[i].focus = resolve_log[j].focus
        /\ HasLocation(resolve_log[i].focus)
        /\ resolve_log[i].cluster = <<id_a, 2>>
        /\ resolve_log[i + 1].cluster = <<id_a, 3>>
        /\ resolve_log[j].id = id_a_2


-----------------------------------------------------------------------------
(* The reverse patch and the next check *)

\* C36: a reverse patch clears the mismatch it was made for: if the audit of
\* the flagged node B confirms the incoming set S, every source in S is found
\* or created and given an edge to B, and no other node has an edge to B, then
\* B is not flagged for its incoming edges at the next check, also when a
\* source of S was located by normalized or substring match rather than by
\* exact id.
C36_ReversePatchClears ==
    [][(FixAnswered =>
        LET i == tasks[task_idx + 1].index
            B == step_history[i].source_id
            S == opt_set(step_history'[i].audit_confirmed_incoming)
        IN  (/\ step_history'[i].audit_confirmed_incoming.some
             /\ \A src \in S :
                   /\ find_matching_node(src, step_history') # 0
                   /\ has_edge_to(step_history'[find_matching_node(src, step_history')], B)
             /\ \A j \in DOMAIN step_history' :
                   has_edge_to(step_history'[j], B) => j \in located(step_history', S))
            => "Incoming Logic != Confirmed"
                   \notin mismatch_reasons(step_history', step_history'[i]))]_vars


-----------------------------------------------------------------------------
(* What the re-audit of one node may change *)

\* the step differs from the step before at most in its outgoing edges and in
\* its two audit fields
SameButEdgesAndAudit(before, after) ==
    after = [before EXCEPT
                !.outgoing_edges = after.outgoing_edges,
                !.audit_confirmed_incoming = after.audit_confirmed_incoming,
                !.audit_confirmed_outgoing = after.audit_confirmed_outgoing]

\* the step has got one more edge, to N, at the end of its outgoing edges, and N
\* at the end of its cached confirmed-outgoing list, if it has one without N
GotEdgeTo(before, after, N) ==
    /\ after.outgoing_edges = Append(before.outgoing_edges, AddedEdge(N))
    /\ after.audit_confirmed_outgoing =
          IF before.audit_confirmed_outgoing.some
             /\ N \notin Range(before.audit_confirmed_outgoing.val)
          THEN Some(Append(before.audit_confirmed_outgoing.val, N))
          ELSE before.audit_confirmed_outgoing
    /\ after = [before EXCEPT
                   !.outgoing_edges = after.outgoing_edges,
                   !.audit_confirmed_outgoing = after.audit_confirmed_outgoing]

\* C37: processing the re-audit of one flagged node N changes only N's own
\* outgoing edges and audit fields, the outgoing edges and cached
\* confirmed-outgoing of nodes that N's audit names as incoming sources (by
\* adding an edge to N, never by removing), and step_history by appending
\* placeholders; no edge between two other nodes is added or removed and no
\* edge of another node is removed.
C37_FixFrame ==
    [][(FixAnswered =>
        LET i == tasks[task_idx + 1].index
            N == step_history[i].source_id
            S == opt_set(step_history'[i].audit_confirmed_incoming)
        IN  /\ Len(step_history') >= Len(step_history)
            /\ SameButEdgesAndAudit(step_history[i], step_history'[i])
            /\ \A j \in DOMAIN step_history \ {i} :
                  \/ step_history'[j] = step_history[j]
                  \/ /\ j \in located(AfterForwardPatch, S)
                     /\ GotEdgeTo(step_history[j], step_history'[j], N)
            /\ \A k \in appended_steps :
                  /\ IsPlaceholder(step_history'[k])
                  /\ step_history'[k].source_id \in S
                  /\ target_ids(step_history'[k].outgoing_edges) = <<N>>)]_vars

\* the re-audit of a node has given a crawled node that had an edge a second
\* one, to the audited node
C37_Witness ==
    /\ pc = "fix" /\ task_idx >= 1
    /\ \E j \in DOMAIN step_history :
          /\ j # last_rewrite.index
          /\ ~IsPlaceholder(step_history[j])
          /\ Len(step_history[j].outgoing_edges) = 2
          /\ step_history[j].outgoing_edges[2] =
                AddedEdge(step_history[last_rewrite.index].source_id)
          /\ step_history[j].outgoing_edges[1] # step_history[j].outgoing_edges[2]


-----------------------------------------------------------------------------
(* The graph given to _apply_structural_corrections *)

\* a pass of the loop over the operations of the batch
OperationPass == pc = "refine" /\ op_count' = op_count + 1

-----------------------------------------------------------------------------
(* One edge per target after an audit rewrite *)

\* the first of the edges that goes to t
first_to(edges, t) ==
    edges[first_index({k \in DOMAIN edges : edges[k].target_id = t})]

\* C39: after an audit rewrite with a non-null confirmation (initial audit or
\* forward patch), a node has at most one outgoing edge per target: when the
\* node had several edges to the same target (for example with different
\* labels), only the first of them is kept.
C39_OneEdgePerTarget ==
    [][(AuditAnswered /\ last_rewrite'.confirmed.some) =>
        LET i == last_rewrite'.index
            before == step_history[i].outgoing_edges
            rewritten == last_rewrite'.after
            confirmed == Range(last_rewrite'.confirmed.val)
        IN  /\ Distinct(target_ids(rewritten))
            /\ Distinct(target_ids(step_history'[i].outgoing_edges))
            /\ IsPrefix(rewritten, step_history'[i].outgoing_edges)
            /\ \A t \in Range(target_ids(before)) \cap confirmed :
                  \A k \in DOMAIN rewritten :
                      rewritten[k].target_id = t => rewritten[k] = first_to(before, t)
            /\ Range(target_ids(rewritten)) = confirmed]_vars

\* Start was reported with a Yes and a No edge to A; the audit confirmed A and
\* the rewrite kept the Yes edge alone
C39_Witness ==
    /\ image.at[LS].outgoing_edges = TwoBranches.out[LS]
    /\ last_rewrite.index = 1
    /\ last_rewrite.confirmed = Some(<<id_A>>)
    /\ last_rewrite.after = <<Seen(id_A, Some(Yes), LA)>>
    /\ step_history[1].outgoing_edges = last_rewrite.after

=============================================================================
